---- MODULE Spec2Model ----
(***************************************************************************)
(* Model of the incremental synchronisation engine of the BGG worker:      *)
(* BGGDataProcessor.processCsvFile (row decoding, change analysis, batch   *)
(* upserts with retry) and BGGDataProcessor.resortCollection (stage, then  *)
(* delete and reinsert), run against two collections of a document store.  *)
(*                                                                         *)
(* Numbers are exact multiples of 1/Scale (Scale = 10^4), so that the      *)
(* 0.001 tolerance of hasGameDataChanged is Scale \div 1000 units.  Text   *)
(* that the code parses is a sequence of one-character strings.  A         *)
(* document is a function from field names to values; an absent field is   *)
(* a field name outside its DOMAIN.                                        *)
(***************************************************************************)
EXTENDS Integers, Sequences, FiniteSets, TLC

\* ------------------------------------------------------------------ bounds
\* Rows in one source file.
MaxRows == 2
\* Runs of processCsvFile in one behaviour (also the range of the clock).
MaxRuns == 2
\* Store operations that fail in one behaviour.
MaxFailures == 2
\* Stand-ins for the batch sizes 500 (local store) and 1000 (remote store) and
\* for the batch size 1000 of resortCollection.
BatchSizeLocal == 1
BatchSizeRemote == 2
ResortBatchSize == 2
MaxDocs == 3
MaxExecutions == 3
MaxSignals == 2
MaxCalls == 2

\* ------------------------------------------------------- number encoding
Scale == 10 * 10 * 10 * 10
Num(n) == n * Scale
\* 0.001, the tolerance of hasGameDataChanged.
Tolerance == Scale \div 1000
Abs(x) == IF x < 0 THEN -x ELSE x

Digits == <<"0", "1", "2", "3", "4", "5", "6", "7", "8", "9">>
IsDigit(c) == \E d \in 1..10 : Digits[d] = c
DigitVal(c) == (CHOOSE d \in 1..10 : Digits[d] = c) - 1
IsSpace(c) == c = " "

RECURSIVE SkipSpaces(_)
SkipSpaces(s) ==
  IF s # <<>> /\ IsSpace(Head(s)) THEN SkipSpaces(Tail(s)) ELSE s

\* The longest prefix of s made of digits.
RECURSIVE DigitPrefix(_)
DigitPrefix(s) ==
  IF s # <<>> /\ IsDigit(Head(s)) THEN <<Head(s)>> \o DigitPrefix(Tail(s)) ELSE <<>>

RECURSIVE DigitsValue(_, _)
DigitsValue(ds, acc) ==
  IF ds = <<>> THEN acc ELSE DigitsValue(Tail(ds), 10 * acc + DigitVal(Head(ds)))

RECURSIVE Pow10(_)
Pow10(k) == IF k = 0 THEN 1 ELSE 10 * Pow10(k - 1)

\* A parse result is <<>> for NaN and <<v>> for the number v / Scale.
NaN == <<>>

\* parseInt(text): leading blanks, an optional sign, then decimal digits;
\* anything after the digits is ignored; no digit at all gives NaN.  A column
\* the row lacks (undefined) gives NaN.
ParseIntText(s) ==
  LET t == SkipSpaces(s)
      neg == t # <<>> /\ Head(t) = "-"
      u == IF t # <<>> /\ Head(t) \in {"-", "+"} THEN Tail(t) ELSE t
      ds == DigitPrefix(u)
  IN IF ds = <<>> THEN NaN
     ELSE <<(IF neg THEN -1 ELSE 1) * Num(DigitsValue(ds, 0))>>

\* parseFloat(text): as parseInt, with an optional fraction after a point.
\* Fractions are kept to the four decimals Scale can hold.
ParseFloatText(s) ==
  LET t == SkipSpaces(s)
      neg == t # <<>> /\ Head(t) = "-"
      u == IF t # <<>> /\ Head(t) \in {"-", "+"} THEN Tail(t) ELSE t
      ds == DigitPrefix(u)
      rest == SubSeq(u, Len(ds) + 1, Len(u))
      fs0 == IF rest # <<>> /\ Head(rest) = "." THEN DigitPrefix(Tail(rest)) ELSE <<>>
      fs == IF Len(fs0) > 4 THEN SubSeq(fs0, 1, 4) ELSE fs0
      frac == DigitsValue(fs, 0) * Pow10(4 - Len(fs))
  IN IF ds = <<>> /\ fs0 = <<>> THEN NaN
     ELSE <<(IF neg THEN -1 ELSE 1) * (Num(DigitsValue(ds, 0)) + frac)>>

Has(d, f) == f \in DOMAIN d

parseInt(row, col) == IF Has(row, col) THEN ParseIntText(row[col]) ELSE NaN
parseFloat(row, col) == IF Has(row, col) THEN ParseFloatText(row[col]) ELSE NaN

\* A function with the one pair f |-> v, and the empty function.
One(f, v) == [k \in {f} |-> v]
Empty == [k \in {} |-> 0]
\* A decoder that stores 0 for a field whose parse gave NaN.
FieldSentinel(f, parsed) == One(f, IF parsed = NaN THEN 0 ELSE parsed[1])

\* The field f of a decoded document: dropped when the parse gave NaN.
Field(f, parsed) == IF parsed = NaN THEN Empty ELSE One(f, parsed[1])

\* ------------------------------------------------------------ row decoder
\* The document built from one csv row by the 'data' handler, after the
\* clean-up loop has deleted the undefined, null and NaN fields.
DecodeRow(row) ==
  Field("id", parseInt(row, "id"))
  @@ (IF Has(row, "name") THEN One("name", row.name) ELSE Empty)
  @@ Field("year_published", parseInt(row, "yearpublished"))
  @@ Field("rank", parseInt(row, "rank"))
  @@ Field("bayes_average", parseFloat(row, "bayesaverage"))
  @@ Field("average", parseFloat(row, "average"))
  @@ Field("users_rated", parseInt(row, "usersrated"))
  @@ One("is_expansion", Has(row, "is_expansion") /\ row.is_expansion = <<"1">>)
  @@ (IF Has(row, "abstracts_rank") /\ row.abstracts_rank # <<>>
        THEN Field("abstracts_rank", parseInt(row, "abstracts_rank"))
        ELSE Empty)

\* if (gameDoc.name || gameDoc.id).
KeepRowEither(gameDoc) ==
  \/ Has(gameDoc, "name") /\ gameDoc.name # ""
  \/ Has(gameDoc, "id") /\ gameDoc.id # 0

\* if (gameDoc.name && gameDoc.id): a name that is not empty and an id that
\* is a number other than 0.
KeepRow(gameDoc) ==
  /\ Has(gameDoc, "name") /\ gameDoc.name # ""
  /\ Has(gameDoc, "id") /\ gameDoc.id # 0

\* ----------------------------------------------------------------- differ
fieldsToCompare ==
  <<"name", "year_published", "rank", "bayes_average",
    "average", "users_rated", "is_expansion", "abstracts_rank">>

\* The fields whose values have typeof 'number' (the decoder gives a string
\* to name, a boolean to is_expansion and a number, never NaN, to the rest).
NumericFields ==
  {"year_published", "rank", "bayes_average", "average", "users_rated", "abstracts_rank"}

\* One iteration of the loop of hasGameDataChanged: TRUE when it returns true.
\* An absent field reads as undefined, so two absent fields are ===, and an
\* absent and a present one differ without both being numbers.
FieldChangedStrict(field, newGame, existingGame) ==
  IF Has(newGame, field) /\ Has(existingGame, field)
    THEN newGame[field] # existingGame[field]
    ELSE Has(newGame, field) # Has(existingGame, field)

FieldChanged(field, newGame, existingGame) ==
  IF Has(newGame, field) /\ Has(existingGame, field)
    THEN /\ newGame[field] # existingGame[field]
         /\ IF field \in NumericFields
              THEN Abs(newGame[field] - existingGame[field]) > Tolerance
              ELSE TRUE
    ELSE Has(newGame, field) # Has(existingGame, field)

hasGameDataChanged(newGame, existingGame) ==
  \E i \in 1..Len(fieldsToCompare) :
    FieldChanged(fieldsToCompare[i], newGame, existingGame)

\* existingGames.forEach(game => existingGamesMap.set(game.id, game)): the
\* last document of an id wins.
Last(s) == s[Len(s)]
SelectId(docs, id) == SelectSeq(docs, LAMBDA d : Has(d, "id") /\ d.id = id)
IdsOf(docs) == {docs[i].id : i \in {j \in 1..Len(docs) : Has(docs[j], "id")}}
BuildMap(existingGames) ==
  [id \in IdsOf(existingGames) |-> Last(SelectId(existingGames, id))]

\* The classification of one decoded record by the loop of analyzeChanges.
ClassifyNeverNew(newGame, existingGamesMap) ==
  IF newGame.id \notin DOMAIN existingGamesMap THEN "changed"
  ELSE IF hasGameDataChanged(newGame, existingGamesMap[newGame.id]) THEN "changed"
  ELSE "unchanged"

Classify(newGame, existingGamesMap) ==
  IF newGame.id \notin DOMAIN existingGamesMap THEN "new"
  ELSE IF hasGameDataChanged(newGame, existingGamesMap[newGame.id]) THEN "changed"
  ELSE "unchanged"

analyzeChanges(newRecords, existingGamesMap) ==
  [newGames |-> SelectSeq(newRecords, LAMBDA g : Classify(g, existingGamesMap) = "new"),
   updatedGames |-> SelectSeq(newRecords, LAMBDA g : Classify(g, existingGamesMap) = "changed"),
   unchangedCount |->
     Cardinality({i \in 1..Len(newRecords) :
                    Classify(newRecords[i], existingGamesMap) = "unchanged"})]

\* ------------------------------------------------------------------- sort
\* localeCompare(..., { sensitivity: 'base' }) on the names of the model:
\* names that differ only in case compare equal.
NameKey(name) ==
  CASE name \in {"Ant", "ant"} -> 1
    [] name \in {"Bee", "bee"} -> 2
    [] name \in {"Zed", "zed"} -> 3
    [] OTHER -> 0

\* resortCollection compares (a.name || '').
DocKey(doc) == IF Has(doc, "name") THEN NameKey(doc.name) ELSE 0

\* resortCollection without the sort.
SortKeepsOrder(docs) == docs

\* Array.prototype.sort is stable: insert each element after the elements
\* that do not compare greater.
RECURSIVE InsertSorted(_, _)
InsertSorted(sorted, d) ==
  IF sorted = <<>> THEN <<d>>
  ELSE IF DocKey(Last(sorted)) <= DocKey(d) THEN Append(sorted, d)
  ELSE Append(InsertSorted(SubSeq(sorted, 1, Len(sorted) - 1), d), Last(sorted))

RECURSIVE SortByName(_)
SortByName(docs) ==
  IF docs = <<>> THEN <<>>
  ELSE InsertSorted(SortByName(SubSeq(docs, 1, Len(docs) - 1)), Last(docs))

\* ------------------------------------------------------------------ store
\* A collection is the sequence of its documents in natural (insertion)
\* order.  The storage-assigned _id is not modelled: resortCollection strips
\* it before every reinsertion and nothing else reads it.

Min(a, b) == IF a < b THEN a ELSE b

\* The updateOne operation processCsvFile pushes on gamesBatch.
GameOp(gameDoc, ts) ==
  [id |-> gameDoc.id,
   set |-> One("date_updated", ts) @@ gameDoc,
   setOnInsert |-> One("date_created", ts)]

\* The updateOne operation processCsvFile pushes on searchBatch.
SearchOp(gameDoc, ts) ==
  [id |-> gameDoc.id,
   set |-> One("id", gameDoc.id) @@ One("name", gameDoc.name) @@ One("date_updated", ts),
   setOnInsert |-> One("date_created", ts)]

\* updateOne with filter { id }, $set, $setOnInsert and upsert: true.  The
\* first document with the id gets the $set fields (its other fields stay);
\* with no such document one is inserted with the $set and $setOnInsert fields.
Matching(coll, id) == {j \in 1..Len(coll) : Has(coll[j], "id") /\ coll[j].id = id}
FirstOf(S) == CHOOSE j \in S : \A k \in S : j <= k

updateOneInsertAlways(coll, op) == Append(coll, op.set @@ op.setOnInsert)

updateOneTouchCreated(coll, op) ==
  IF Matching(coll, op.id) = {}
    THEN Append(coll, op.set @@ op.setOnInsert)
    ELSE [coll EXCEPT ![FirstOf(Matching(coll, op.id))] = op.set @@ op.setOnInsert @@ @]

updateOne(coll, op) ==
  IF Matching(coll, op.id) = {}
    THEN Append(coll, op.set @@ op.setOnInsert)
    ELSE [coll EXCEPT ![FirstOf(Matching(coll, op.id))] = op.set @@ @]

\* bulkWrite(ops, { ordered: true }): the operations one after the other.
RECURSIVE bulkWrite(_, _)
bulkWrite(coll, ops) ==
  IF ops = <<>> THEN coll ELSE bulkWrite(updateOne(coll, Head(ops)), Tail(ops))

\* ------------------------------------------------------------ source files
\* The csv rows the model draws source files from.
Row(id, name, rank, bayes) ==
  [id |-> id, name |-> name, yearpublished |-> <<"1", "9", "9", "5">>,
   rank |-> rank, bayesaverage |-> bayes, average |-> <<"7", ".", "2", "5">>,
   usersrated |-> <<"1", "0">>, is_expansion |-> <<"0">>, abstracts_rank |-> <<>>]

Rows ==
  << Row(<<"1">>, "Ant", <<"5">>, <<"7", ".", "5">>),
     Row(<<"1">>, "Ant", <<"3">>, <<"7", ".", "5">>),
     Row(<<"1">>, "Ant", <<>>, <<"7", ".", "5">>),
     Row(<<"1">>, "Ant", <<"5">>, <<"7", ".", "5", "0", "0", "5">>),
     Row(<<"2">>, "ant", <<"x">>, <<"6", ".", "0", "2">>),
     Row(<<>>, "Zed", <<"9">>, <<"5">>) >>

\* A source file is a sequence of indices into Rows.
RECURSIVE SeqsUpTo(_, _)
SeqsUpTo(S, n) ==
  IF n = 0 THEN {<<>>}
  ELSE LET shorter == SeqsUpTo(S, n - 1)
       IN shorter \cup {Append(f, x) : f \in shorter, x \in S}

Files == SeqsUpTo(1..Len(Rows), MaxRows)

\* ------------------------------------------------------------------ state
VARIABLES
  games,            \* the Record collection (board_games)
  search,           \* the SearchEntry collection (games_search)
  temp,             \* the staging collection of the resort in progress or last run
  orphans,          \* staging collections left behind by failed resorts
  batchSize,        \* isLocalhost ? 500 : 1000, fixed by the connection string
  clock,            \* Date: the number of runs started so far
  failures,         \* store and stream operations that have failed so far
  pc,               \* where the run in progress stands; "Idle" between runs
  phase,            \* the batch write in progress: "first", "retry" or "final"
  coll,             \* the collection resortCollection is working on
  file,             \* the rows of the source file of the current (or last) run
  pos,              \* rows the stream has delivered
  allRecords,       \* processCsvFile: allRecords
  checked,          \* processCsvFile: checked
  existingGamesMap, \* processCsvFile: existingGamesMap
  changesAnalysis,  \* processCsvFile: changesAnalysis
  gamesToProcess,   \* processCsvFile: gamesToProcess, sorted
  next,             \* records of gamesToProcess the for loop has taken
  gamesBatch,       \* processCsvFile: gamesBatch
  searchBatch,      \* processCsvFile: searchBatch
  totalProcessed,   \* processCsvFile: totalProcessed
  currentTimestamp, \* processCsvFile: currentTimestamp
  allDocs,          \* resortCollection: allDocs, sorted
  sortedDocs,       \* resortCollection: sortedDocs
  i,                \* resortCollection: the loop index of the insert loops
  outcome,          \* the promise of the last run: "none", "Done" or "Failed"
  result,           \* the value the promise resolved with; a rejection carries
                    \* the error as thrown, to which the run adds no field
  failedIn,         \* the stage whose error rejected the promise
  mutations,        \* write, insert, delete and drop requests issued by this run
  preGames,         \* the Record collection when this run started
  preSearch,        \* the SearchEntry collection when this run started
  batchStart,       \* both collections when the current batch was first attempted
  batchLog,         \* the store requests made for the current batch, in order
  rerun,            \* this run reads the file of the previous run, which ended Done
  resortFailed,     \* resortCollection has caught an error in this run
  resortStart,      \* the collection as the current (or last) resort found it
  job,              \* DataFetchJob: the cron task, "none", "started" or "stopped"
  setup,            \* where setupDataFetchJob stands
  executions,       \* the calls of executeJob so far, each with its caller and stage
  runImmediately,   \* process.env.RUN_IMMEDIATELY === 'true'
  proc,             \* the worker process: "running", "exited" or "killed"
  handlers,         \* setupGracefulShutdown has registered the signal handlers
  isShuttingDown,   \* BGMarketWorker: isShuttingDown
  db,               \* the database client: "connected" or "disconnected"
  shutdownLog,      \* what the shutdown handler has done so far, in order
  signals,          \* SIGINT, SIGTERM and SIGQUIT received so far
  runs,             \* the locals of each of the runs that overlap on the store
  bggJob,           \* BGGDataJob: its fields, the job_status and job_logs it writes
  dataDir,          \* the data directory: its temporary archives and its CSV files
  extractor,        \* the call of downloadAndExtract in progress, or the last one
  arg,              \* the arguments of the function a function check applies
  ret               \* the value that function returned

store == <<games, search, temp, orphans>>
worker == <<proc, handlers, isShuttingDown, db, shutdownLog, signals>>
trigger == <<job, setup, executions, runImmediately, worker>>
files == <<dataDir, extractor>>
fixed == <<batchSize, arg, ret, trigger, files, runs, bggJob>>
decodeVars == <<file, pos, allRecords, checked>>
diffVars == <<existingGamesMap, changesAnalysis, gamesToProcess, currentTimestamp>>
batchVars == <<next, gamesBatch, searchBatch, totalProcessed, phase>>
resortVars == <<coll, allDocs, sortedDocs, i>>
endVars == <<outcome, result, failedIn>>
histVars == <<mutations, preGames, preSearch, batchStart, batchLog, rerun,
              resortFailed, resortStart>>
vars == <<store, fixed, clock, failures, pc, decodeVars, diffVars, batchVars,
          resortVars, endVars, histVars>>

\* The store a completed run on the file with the one row Rows[1] leaves.
SeedRecords == <<DecodeRow(Rows[1])>>
SeedGames == bulkWrite(<<>>, <<GameOp(SeedRecords[1], 0)>>)
SeedSearch == bulkWrite(<<>>, <<SearchOp(SeedRecords[1], 0)>>)

\* The data directory with no file, and the extractor before any call.
\* tried lists the RAR extractors the call has invoked, each with whether it
\* threw.
EmptyDir == [temps |-> {}, csvs |-> Empty]
NoCall ==
  [pc |-> "idle", ext |-> "", archive |-> "", temp |-> 0, csvPath |-> "",
   outcome |-> "none", calls |-> 0, tried |-> <<>>]

\* BGGDataJob after its constructor, which sets no urlFetcher, with the
\* job_status of 'bgg_data_fetch' and the job_logs entries empty.  requests
\* lists the steps the execution in progress has taken, error is what its try
\* block threw and thrown what executeJob threw to its caller.
NoJob ==
  [pc |-> "idle", urlFetcher |-> FALSE, status |-> "none", logs |-> <<>>,
   requests |-> <<>>, error |-> "none", thrown |-> "none", returned |-> FALSE,
   calls |-> 0, faults |-> 0]

NoAnalysis == [newGames |-> <<>>, updatedGames |-> <<>>, unchangedCount |-> 0]

\* The locals of a run and the history, before any run.
NoRun ==
  /\ temp = <<>> /\ orphans = 0
  /\ clock = 0 /\ failures = 0
  /\ phase = "first" /\ coll = "games"
  /\ file = <<>> /\ pos = 0 /\ allRecords = <<>> /\ checked = 0
  /\ existingGamesMap = Empty /\ changesAnalysis = NoAnalysis
  /\ gamesToProcess = <<>> /\ currentTimestamp = 0
  /\ next = 0 /\ gamesBatch = <<>> /\ searchBatch = <<>> /\ totalProcessed = 0
  /\ allDocs = <<>> /\ sortedDocs = <<>> /\ i = 0
  /\ outcome = "none" /\ result = Empty /\ failedIn = "none"
  /\ mutations = 0 /\ preGames = games /\ preSearch = search
  /\ batchStart = <<games, search>> /\ batchLog = <<>> /\ rerun = FALSE
  /\ resortFailed = FALSE /\ resortStart = <<>>
  /\ job = "none" /\ setup = "new" /\ executions = <<>>
  /\ proc = "running" /\ handlers = FALSE /\ isShuttingDown = FALSE
  /\ db = "connected" /\ shutdownLog = <<>> /\ signals = 0
  /\ dataDir = EmptyDir /\ extractor = NoCall

Init ==
  /\ \/ games = <<>> /\ search = <<>>
     \/ games = SeedGames /\ search = SeedSearch
  /\ batchSize \in {BatchSizeLocal, BatchSizeRemote}
  /\ pc = "Idle"
  /\ arg = <<>> /\ ret = <<>>
  /\ runImmediately = FALSE /\ runs = <<>> /\ bggJob = NoJob
  /\ NoRun

\* reject(error) without the return that follows it: the loop goes on.
RejectNoReturn(stage) ==
  /\ pc' = "Fill" /\ outcome' = "Failed" /\ failedIn' = stage /\ result' = Empty

\* reject(error): the promise of processCsvFile is rejected and the handler
\* returns.
Reject(stage) ==
  /\ pc' = "Idle" /\ outcome' = "Failed" /\ failedIn' = stage /\ result' = Empty

\* ------------------------------------------------------------ processCsvFile
\* processCsvFile up to the creation of the read stream.  createIndexes
\* changes no document.
StartRun(f) ==
  /\ pc = "Idle" /\ clock < MaxRuns
  /\ pc' = "Decoding" /\ clock' = clock + 1
  /\ file' = f /\ pos' = 0 /\ allRecords' = <<>> /\ checked' = 0
  /\ outcome' = "none" /\ result' = Empty /\ failedIn' = "none"
  /\ mutations' = 0 /\ preGames' = games /\ preSearch' = search
  /\ batchStart' = <<games, search>> /\ batchLog' = <<>>
  /\ rerun' = (outcome = "Done" /\ f = file)
  /\ resortFailed' = FALSE /\ resortStart' = <<>>
  /\ existingGamesMap' = Empty /\ changesAnalysis' = NoAnalysis
  /\ gamesToProcess' = <<>> /\ currentTimestamp' = 0
  /\ next' = 0 /\ gamesBatch' = <<>> /\ searchBatch' = <<>> /\ totalProcessed' = 0
  /\ phase' = "first"
  /\ UNCHANGED <<store, fixed, failures, resortVars>>

\* The file name does not include 'boardgames_ranks': processCsvFile throws.
StartUnsupported ==
  /\ pc = "Idle" /\ clock < MaxRuns
  /\ clock' = clock + 1
  /\ Reject("file")
  /\ mutations' = 0 /\ preGames' = games /\ preSearch' = search
  /\ batchStart' = <<games, search>> /\ batchLog' = <<>> /\ rerun' = FALSE
  /\ resortFailed' = FALSE /\ resortStart' = <<>>
  /\ UNCHANGED <<store, fixed, failures, decodeVars, diffVars, batchVars, resortVars>>

\* The 'data' handler, for the next row of the file.
OnData ==
  /\ pc = "Decoding" /\ pos < Len(file)
  /\ LET gameDoc == DecodeRow(Rows[file[pos + 1]])
     IN allRecords' = IF KeepRow(gameDoc) THEN Append(allRecords, gameDoc) ELSE allRecords
  /\ checked' = checked + 1
  /\ pos' = pos + 1
  /\ UNCHANGED <<store, fixed, clock, failures, pc, file, diffVars, batchVars,
                 resortVars, endVars, histVars>>

\* The csv parser emits 'error': the 'error' handler rejects.
OnParserError ==
  /\ pc = "Decoding" /\ failures < MaxFailures
  /\ failures' = failures + 1
  /\ Reject("stream")
  /\ UNCHANGED <<store, fixed, clock, decodeVars, diffVars, batchVars,
                 resortVars, histVars>>

\* The file read stream emits 'error' (no such file, read error).  The
\* 'error' handler is attached to the parser the stream is piped into, not to
\* the read stream, so the error is an uncaught exception and the process
\* exits; the promise is never settled.
OnReadError ==
  /\ pc = "Decoding" /\ failures < MaxFailures
  /\ failures' = failures + 1
  /\ pc' = "Exited"
  /\ UNCHANGED <<store, fixed, clock, decodeVars, diffVars, batchVars,
                 resortVars, endVars, histVars>>

\* The 'end' handler without the early return of lines 89-101.
OnEndNoShortCircuit ==
  /\ pc = "Decoding" /\ pos = Len(file)
  /\ LET map == BuildMap(games)
         analysis == analyzeChanges(allRecords, map)
     IN /\ existingGamesMap' = map
        /\ changesAnalysis' = analysis
        /\ pc' = "Fill"
        /\ gamesToProcess' = SortByName(analysis.newGames \o analysis.updatedGames)
        /\ currentTimestamp' = clock
        /\ UNCHANGED endVars
  /\ UNCHANGED <<store, fixed, clock, failures, decodeVars, batchVars,
                 resortVars, histVars>>

\* The 'end' handler up to the for loop: load the snapshot, analyse, and
\* either resolve with noChanges or sort the records to write.
OnEnd ==
  /\ pc = "Decoding" /\ pos = Len(file)
  /\ LET map == BuildMap(games)
         analysis == analyzeChanges(allRecords, map)
         hasChanges == Len(analysis.newGames) > 0 \/ Len(analysis.updatedGames) > 0
     IN /\ existingGamesMap' = map
        /\ changesAnalysis' = analysis
        /\ IF ~hasChanges
             THEN /\ pc' = "Idle" /\ outcome' = "Done" /\ failedIn' = "none"
                  /\ result' = [totalProcessed |-> 0, newGamesCount |-> 0,
                                updatedGamesCount |-> 0, noChanges |-> TRUE]
                  /\ UNCHANGED <<gamesToProcess, currentTimestamp>>
             ELSE /\ pc' = "Fill"
                  /\ gamesToProcess' = SortByName(analysis.newGames \o analysis.updatedGames)
                  /\ currentTimestamp' = clock
                  /\ UNCHANGED endVars
  /\ UNCHANGED <<store, fixed, clock, failures, decodeVars, batchVars,
                 resortVars, histVars>>

\* gamesCollection.find({}).toArray() fails in the 'end' handler.
OnEndFindFail ==
  /\ pc = "Decoding" /\ pos = Len(file) /\ failures < MaxFailures
  /\ failures' = failures + 1
  /\ Reject("snapshot")
  /\ UNCHANGED <<store, fixed, clock, decodeVars, diffVars, batchVars,
                 resortVars, histVars>>

\* The for loop pushing the SearchEntry operations at the front of searchBatch.
FillBatchSearchReversed ==
  /\ pc = "Fill"
  /\ LET take == Min(batchSize, Len(gamesToProcess) - next)
         recs == SubSeq(gamesToProcess, next + 1, next + take)
     IN /\ next' = next + take
        /\ gamesBatch' = [k \in 1..take |-> GameOp(recs[k], currentTimestamp)]
        /\ searchBatch' = [k \in 1..take |-> SearchOp(recs[take + 1 - k], currentTimestamp)]
        /\ IF take = 0
             THEN pc' = "ResortFind" /\ coll' = "games" /\ UNCHANGED phase
             ELSE /\ pc' = "Ensure" /\ UNCHANGED coll
                  /\ phase' = IF take >= batchSize THEN "first" ELSE "final"
  /\ batchStart' = <<games, search>> /\ batchLog' = <<>>
  /\ UNCHANGED <<store, fixed, clock, failures, decodeVars, diffVars, totalProcessed,
                 allDocs, sortedDocs, i, endVars, mutations, preGames, preSearch, rerun,
                 resortFailed, resortStart>>

\* The for loop from one batch write to the next: push the operations of the
\* next records until the batch is full or the records are used up.
FillBatch ==
  /\ pc = "Fill"
  /\ LET take == Min(batchSize, Len(gamesToProcess) - next)
         recs == SubSeq(gamesToProcess, next + 1, next + take)
     IN /\ next' = next + take
        /\ gamesBatch' = [k \in 1..take |-> GameOp(recs[k], currentTimestamp)]
        /\ searchBatch' = [k \in 1..take |-> SearchOp(recs[k], currentTimestamp)]
        /\ IF take = 0
             THEN pc' = "ResortFind" /\ coll' = "games" /\ UNCHANGED phase
             ELSE /\ pc' = "Ensure" /\ UNCHANGED coll
                  /\ phase' = IF take >= batchSize THEN "first" ELSE "final"
  /\ batchStart' = <<games, search>> /\ batchLog' = <<>>
  /\ UNCHANGED <<store, fixed, clock, failures, decodeVars, diffVars, totalProcessed,
                 allDocs, sortedDocs, i, endVars, mutations, preGames, preSearch, rerun, resortFailed,
                 resortStart>>

\* A store request of a batch write threw.  In the loop the first attempt is
\* inside a try whose catch retries once; an error of the retry, or of the
\* write of the remaining records after the loop, rejects the promise.
BatchFailed ==
  IF phase = "first"
    THEN pc' = "Ensure" /\ phase' = "retry" /\ UNCHANGED endVars
    ELSE Reject("write") /\ UNCHANGED phase

\* await this.database.ensureConnection() returns.
EnsureConnection ==
  /\ pc = "Ensure"
  /\ pc' = "Games"
  /\ batchLog' = Append(batchLog, "ensure")
  /\ UNCHANGED <<store, fixed, clock, failures, decodeVars, diffVars, batchVars,
                 resortVars, endVars, mutations, preGames, preSearch, batchStart, rerun, resortFailed,
                 resortStart>>

\* ensureConnection throws: the reconnect in its catch block failed.
EnsureConnectionFail ==
  /\ pc = "Ensure" /\ failures < MaxFailures
  /\ failures' = failures + 1
  /\ batchLog' = Append(batchLog, "ensure failed")
  /\ BatchFailed
  /\ UNCHANGED <<store, fixed, clock, decodeVars, diffVars, next, gamesBatch,
                 searchBatch, totalProcessed, resortVars, mutations, preGames,
                 preSearch, batchStart, rerun, resortFailed,
                 resortStart>>

\* The Record write counting the batch before the SearchEntry write.
WriteGamesCounts ==
  /\ pc = "Games"
  /\ games' = bulkWrite(games, gamesBatch)
  /\ pc' = "Search"
  /\ totalProcessed' = totalProcessed + Len(gamesBatch)
  /\ mutations' = mutations + 1
  /\ batchLog' = Append(batchLog, "games")
  /\ UNCHANGED <<search, temp, orphans, fixed, clock, failures, decodeVars, diffVars,
                 next, gamesBatch, searchBatch, phase, resortVars, endVars, preGames,
                 preSearch, batchStart, rerun, resortFailed, resortStart>>

\* await gamesCollection.bulkWrite(gamesBatch, { ordered: true }) returns.
WriteGames ==
  /\ pc = "Games"
  /\ games' = bulkWrite(games, gamesBatch)
  /\ pc' = "Search"
  /\ mutations' = mutations + 1
  /\ batchLog' = Append(batchLog, "games")
  /\ UNCHANGED <<search, temp, orphans, fixed, clock, failures, decodeVars, diffVars,
                 batchVars, resortVars, endVars, preGames, preSearch, batchStart, rerun, resortFailed,
                 resortStart>>

\* The bulkWrite on the Record collection throws at some operation k + 1:
\* being ordered, it has applied the first k operations.
WriteGamesFail ==
  /\ pc = "Games" /\ failures < MaxFailures
  /\ failures' = failures + 1
  /\ \E k \in 0..(Len(gamesBatch) - 1) : games' = bulkWrite(games, SubSeq(gamesBatch, 1, k))
  /\ mutations' = mutations + 1
  /\ batchLog' = Append(batchLog, "games failed")
  /\ BatchFailed
  /\ UNCHANGED <<search, temp, orphans, fixed, clock, decodeVars, diffVars, next,
                 gamesBatch, searchBatch, totalProcessed, resortVars, preGames,
                 preSearch, batchStart, rerun, resortFailed,
                 resortStart>>

\* await searchCollection.bulkWrite(searchBatch, { ordered: true }) returns:
\* the batch is counted; in the loop the batches are emptied and the loop goes
\* on, after the loop the resort starts.
WriteSearch ==
  /\ pc = "Search"
  /\ search' = bulkWrite(search, searchBatch)
  /\ totalProcessed' = totalProcessed + Len(gamesBatch)
  /\ mutations' = mutations + 1
  /\ batchLog' = Append(batchLog, "search")
  /\ IF phase = "final"
       THEN pc' = "ResortFind" /\ coll' = "games" /\ UNCHANGED <<gamesBatch, searchBatch>>
       ELSE pc' = "Fill" /\ gamesBatch' = <<>> /\ searchBatch' = <<>> /\ UNCHANGED coll
  /\ UNCHANGED <<games, temp, orphans, fixed, clock, failures, decodeVars, diffVars,
                 next, phase, allDocs, sortedDocs, i, endVars, preGames, preSearch,
                 batchStart, rerun, resortFailed,
                 resortStart>>

\* A failed bulkWrite on the SearchEntry collection that puts both collections
\* back as the run found them.
WriteSearchFailRollback ==
  /\ pc = "Search" /\ failures < MaxFailures
  /\ failures' = failures + 1
  /\ games' = preGames /\ search' = preSearch
  /\ mutations' = mutations + 1
  /\ batchLog' = Append(batchLog, "search failed")
  /\ BatchFailed
  /\ UNCHANGED <<temp, orphans, fixed, clock, decodeVars, diffVars, next,
                 gamesBatch, searchBatch, totalProcessed, resortVars, preGames,
                 preSearch, batchStart, rerun, resortFailed, resortStart>>

\* The bulkWrite on the SearchEntry collection throws at some operation k + 1.
WriteSearchFail ==
  /\ pc = "Search" /\ failures < MaxFailures
  /\ failures' = failures + 1
  /\ \E k \in 0..(Len(searchBatch) - 1) :
       search' = bulkWrite(search, SubSeq(searchBatch, 1, k))
  /\ mutations' = mutations + 1
  /\ batchLog' = Append(batchLog, "search failed")
  /\ BatchFailed
  /\ UNCHANGED <<games, temp, orphans, fixed, clock, decodeVars, diffVars, next,
                 gamesBatch, searchBatch, totalProcessed, resortVars, preGames,
                 preSearch, batchStart, rerun, resortFailed,
                 resortStart>>

\* ---------------------------------------------------------- resortCollection
Coll == IF coll = "games" THEN games ELSE search
SetColl(docs) ==
  IF coll = "games" THEN games' = docs /\ UNCHANGED search
                    ELSE search' = docs /\ UNCHANGED games

\* resortCollection returns (normally, or from its catch block, which only
\* logs).  After the Record collection the SearchEntry collection is
\* resorted; after that processCsvFile resolves.
ResortReturns ==
  /\ allDocs' = <<>> /\ sortedDocs' = <<>> /\ i' = 0
  /\ IF coll = "games"
       THEN pc' = "ResortFind" /\ coll' = "search" /\ UNCHANGED endVars
       ELSE /\ pc' = "Idle" /\ UNCHANGED coll
            /\ outcome' = "Done" /\ failedIn' = "none"
            /\ result' = [totalProcessed |-> totalProcessed,
                          newGamesCount |-> Len(changesAnalysis.newGames),
                          updatedGamesCount |-> Len(changesAnalysis.updatedGames)]

ResortFrame ==
  UNCHANGED <<fixed, clock, decodeVars, diffVars, batchVars, preGames, preSearch,
              batchStart, batchLog, rerun>>

\* collection.find({}).toArray(), the sort, and the choice of a fresh staging
\* collection; an empty collection returns at once.
ResortFind ==
  /\ pc = "ResortFind"
  /\ IF Coll = <<>>
       THEN ResortReturns /\ UNCHANGED <<temp, orphans>>
       ELSE /\ allDocs' = SortByName(Coll) /\ i' = 0 /\ pc' = "ResortStage"
            /\ temp' = <<>> /\ orphans' = orphans + (IF temp = <<>> THEN 0 ELSE 1)
            /\ UNCHANGED <<coll, sortedDocs, endVars>>
  /\ resortStart' = Coll
  /\ ResortFrame /\ UNCHANGED <<games, search, failures, mutations, resortFailed>>

\* tempCollection.insertMany of the next slice of allDocs.
ResortStage ==
  /\ pc = "ResortStage"
  /\ temp' = temp \o SubSeq(allDocs, i + 1, Min(i + ResortBatchSize, Len(allDocs)))
  /\ i' = i + ResortBatchSize
  /\ pc' = IF i + ResortBatchSize < Len(allDocs) THEN "ResortStage" ELSE "ResortDelete"
  /\ mutations' = mutations + 1
  /\ ResortFrame
  /\ UNCHANGED <<games, search, orphans, failures, coll, allDocs, sortedDocs, endVars,
                 resortFailed, resortStart>>

\* A swap in one request: the original takes the staged documents at once.
ResortDeleteSwap ==
  /\ pc = "ResortDelete"
  /\ SetColl(temp)
  /\ pc' = "ResortFindTemp"
  /\ mutations' = mutations + 1
  /\ ResortFrame
  /\ UNCHANGED <<temp, orphans, failures, resortVars, endVars, resortFailed, resortStart>>

\* collection.deleteMany({}).
ResortDelete ==
  /\ pc = "ResortDelete"
  /\ SetColl(<<>>)
  /\ pc' = "ResortFindTemp"
  /\ mutations' = mutations + 1
  /\ ResortFrame
  /\ UNCHANGED <<temp, orphans, failures, resortVars, endVars, resortFailed, resortStart>>

\* tempCollection.find({}).toArray().
ResortFindTemp ==
  /\ pc = "ResortFindTemp"
  /\ sortedDocs' = temp /\ i' = 0
  /\ pc' = "ResortReinsert"
  /\ ResortFrame
  /\ UNCHANGED <<store, failures, coll, allDocs, endVars, mutations, resortFailed,
                 resortStart>>

\* collection.insertMany of the next slice of sortedDocs.
ResortReinsert ==
  /\ pc = "ResortReinsert"
  /\ SetColl(Coll \o SubSeq(sortedDocs, i + 1, Min(i + ResortBatchSize, Len(sortedDocs))))
  /\ i' = i + ResortBatchSize
  /\ pc' = IF i + ResortBatchSize < Len(sortedDocs) THEN "ResortReinsert" ELSE "ResortDrop"
  /\ mutations' = mutations + 1
  /\ ResortFrame
  /\ UNCHANGED <<temp, orphans, failures, coll, allDocs, sortedDocs, endVars,
                 resortFailed, resortStart>>

\* The drop of the staging collection; resortCollection returns.
ResortDrop ==
  /\ pc = "ResortDrop"
  /\ temp' = <<>>
  /\ mutations' = mutations + 1
  /\ ResortReturns
  /\ ResortFrame
  /\ UNCHANGED <<games, search, orphans, failures, resortFailed, resortStart>>

\* A find, the deleteMany or the drop throws and has changed nothing; the
\* catch block logs and resortCollection returns.
ResortStepFail ==
  /\ pc \in {"ResortFind", "ResortDelete", "ResortFindTemp", "ResortDrop"}
  /\ failures < MaxFailures
  /\ failures' = failures + 1
  /\ mutations' = mutations + (IF pc \in {"ResortDelete", "ResortDrop"} THEN 1 ELSE 0)
  /\ ResortReturns
  /\ resortFailed' = TRUE
  /\ ResortFrame /\ UNCHANGED <<store, resortStart>>

\* An insertMany into the staging collection throws at some document k + 1
\* of its slice, the first k being inserted.
ResortStageFail ==
  /\ pc = "ResortStage" /\ failures < MaxFailures
  /\ failures' = failures + 1
  /\ \E k \in 0..(Min(ResortBatchSize, Len(allDocs) - i) - 1) :
       temp' = temp \o SubSeq(allDocs, i + 1, i + k)
  /\ mutations' = mutations + 1
  /\ ResortReturns
  /\ resortFailed' = TRUE
  /\ ResortFrame /\ UNCHANGED <<games, search, orphans, resortStart>>

\* A catch block that also drops the staging collection.
ResortReinsertFailDrops ==
  /\ pc = "ResortReinsert" /\ failures < MaxFailures
  /\ failures' = failures + 1
  /\ \E k \in 0..(Min(ResortBatchSize, Len(sortedDocs) - i) - 1) :
       SetColl(Coll \o SubSeq(sortedDocs, i + 1, i + k))
  /\ temp' = <<>>
  /\ mutations' = mutations + 1
  /\ ResortReturns
  /\ resortFailed' = TRUE
  /\ ResortFrame /\ UNCHANGED <<orphans, resortStart>>

\* An insertMany into the original collection throws at some document k + 1
\* of its slice, the first k being inserted.
ResortReinsertFail ==
  /\ pc = "ResortReinsert" /\ failures < MaxFailures
  /\ failures' = failures + 1
  /\ \E k \in 0..(Min(ResortBatchSize, Len(sortedDocs) - i) - 1) :
       SetColl(Coll \o SubSeq(sortedDocs, i + 1, i + k))
  /\ mutations' = mutations + 1
  /\ ResortReturns
  /\ resortFailed' = TRUE
  /\ ResortFrame /\ UNCHANGED <<temp, orphans, resortStart>>

Next ==
  \/ \E f \in Files : StartRun(f)
  \/ StartUnsupported
  \/ OnData
  \/ OnParserError
  \/ OnReadError
  \/ OnEnd
  \/ OnEndFindFail
  \/ FillBatch
  \/ EnsureConnection
  \/ EnsureConnectionFail
  \/ WriteGames
  \/ WriteGamesFail
  \/ WriteSearch
  \/ WriteSearchFail
  \/ ResortFind
  \/ ResortStage
  \/ ResortDelete
  \/ ResortFindTemp
  \/ ResortReinsert
  \/ ResortDrop
  \/ ResortStepFail
  \/ ResortStageFail
  \/ ResortReinsertFail

Spec == Init /\ [][Next]_vars

\* ------------------------------------------- hasGameDataChanged, on its own
\* The documents the function is applied to: the decoded first row with one
\* field removed or given another value of its type.
Without(doc, f) == [k \in DOMAIN doc \ {f} |-> doc[k]]
With(doc, f, v) == One(f, v) @@ doc

DiffValues(f) ==
  CASE f = "name" -> {"Ant", "ant", "Zed"}
    [] f = "is_expansion" -> {TRUE, FALSE}
    [] f \in {"bayes_average", "average"} ->
         {ParseFloatText(<<"7", ".", "5">>)[1],
          ParseFloatText(<<"7", ".", "5", "0", "0", "5">>)[1],
          ParseFloatText(<<"7", ".", "5", "0", "2">>)[1]}
    [] OTHER -> {ParseIntText(<<"3">>)[1], ParseIntText(<<"5">>)[1]}

CompareFields == {fieldsToCompare[k] : k \in 1..Len(fieldsToCompare)}

DiffDocs ==
  {SeedRecords[1]}
  \cup {Without(SeedRecords[1], f) : f \in CompareFields}
  \cup UNION {{With(SeedRecords[1], f, v) : v \in DiffValues(f)} : f \in CompareFields}

Stored(doc) == doc @@ One("date_created", 0) @@ One("date_updated", 0)

others ==
  <<store, batchSize, clock, failures, decodeVars, diffVars, batchVars, resortVars,
    endVars, histVars, trigger, files, runs, bggJob>>

InitDiff ==
  /\ games = <<>> /\ search = <<>>
  /\ batchSize = BatchSizeLocal
  /\ pc = "Call"
  /\ arg \in {<<n, Stored(e)>> : n \in DiffDocs, e \in DiffDocs}
  /\ ret = <<>>
  /\ runImmediately = FALSE /\ runs = <<>> /\ bggJob = NoJob
  /\ NoRun

CallHasGameDataChanged ==
  /\ pc = "Call"
  /\ ret' = hasGameDataChanged(arg[1], arg[2])
  /\ pc' = "Returned"
  /\ UNCHANGED <<arg, others>>

SpecDiff == InitDiff /\ [][CallHasGameDataChanged]_vars

\* ------------------------------------------------ analyzeChanges, on its own
\* The records the 'data' handler collects from a file.
RECURSIVE DecodeFile(_)
DecodeFile(f) ==
  IF f = <<>> THEN <<>>
  ELSE LET gameDoc == DecodeRow(Rows[Last(f)])
           before == DecodeFile(SubSeq(f, 1, Len(f) - 1))
       IN IF KeepRow(gameDoc) THEN Append(before, gameDoc) ELSE before

\* Record collections that runs on the files of one row leave.
Snapshots ==
  {<<>>, SeedGames,
   bulkWrite(<<>>, <<GameOp(DecodeRow(Rows[5]), 0)>>),
   bulkWrite(SeedGames, <<GameOp(DecodeRow(Rows[5]), 0)>>)}

InitAnalyze ==
  /\ games = <<>> /\ search = <<>>
  /\ batchSize = BatchSizeLocal
  /\ pc = "Call"
  /\ arg \in {<<DecodeFile(f), snap>> : f \in Files, snap \in Snapshots}
  /\ ret = <<>>
  /\ runImmediately = FALSE /\ runs = <<>> /\ bggJob = NoJob
  /\ NoRun

CallAnalyzeChanges ==
  /\ pc = "Call"
  /\ ret' = analyzeChanges(arg[1], BuildMap(arg[2]))
  /\ pc' = "Returned"
  /\ UNCHANGED <<arg, others>>

SpecAnalyze == InitAnalyze /\ [][CallAnalyzeChanges]_vars

\* ----------------------------------------------------------------- claims
Idle == pc = "Idle"
Ended(o) == pc = "Idle" /\ outcome = o

DocsWithId(c, id) == {j \in 1..Len(c) : Has(c[j], "id") /\ c[j].id = id}

\* C1: whenever no run is in progress (the last run ended Done or Failed),
\* every Record has exactly one SearchEntry with its id and name, and every
\* SearchEntry has a Record with its id.
C1_ProjectionConsistent ==
  (Idle /\ outcome \in {"Done", "Failed"}) =>
    /\ \A j \in 1..Len(games) :
         Cardinality({k \in DocsWithId(search, games[j].id) :
                        search[k].name = games[j].name}) = 1
    /\ \A k \in 1..Len(search) : DocsWithId(games, search[k].id) # {}

\* C2: the Record collection never holds two documents with the same id,
\* also when the source file has the same id in more than one row.
C2_KeyUnique ==
  \A j, k \in 1..Len(games) : games[j].id = games[k].id => j = k

\* A run on a file with the same id in two rows has written and resorted.
C2_Witness ==
  /\ Ended("Done") /\ mutations > 0 /\ failures = 0
  /\ Len(allRecords) = 2 /\ allRecords[1].id = allRecords[2].id
  /\ allRecords[1] # allRecords[2]
  /\ Cardinality(DocsWithId(games, allRecords[1].id)) = 1

\* C3: a second run on the unchanged file of a run that ended Done classifies
\* every record Unchanged, returns noChanges = true, issues no write, delete
\* or insert, and leaves both collections as they were.  Stated for the runs
\* in which no store request failed.
C3_Idempotent ==
  (Ended("Done") /\ rerun /\ failures = 0) =>
    /\ changesAnalysis.unchangedCount = Len(allRecords)
    /\ Has(result, "noChanges") /\ result.noChanges
    /\ mutations = 0
    /\ games = preGames /\ search = preSearch

\* C4: after a run that ends Done, the stored Record of every decoded id has
\* the decoded record's compared fields, an absent field being absent in the
\* store.  Stated for the ids that occur in one row only, for the runs in
\* which no store request failed, and with numbers equal up to the tolerance
\* of the differ.
FieldAgrees(f, a, b) ==
  \/ ~Has(a, f) /\ ~Has(b, f)
  \/ /\ Has(a, f) /\ Has(b, f)
     /\ IF f \in NumericFields THEN Abs(a[f] - b[f]) <= Tolerance ELSE a[f] = b[f]

C4_StoreReflectsSource ==
  (Ended("Done") /\ failures = 0) =>
    \A r \in 1..Len(allRecords) :
      DocsWithId(allRecords, allRecords[r].id) = {r} =>
        \E j \in DocsWithId(games, allRecords[r].id) :
          \A f \in CompareFields : FieldAgrees(f, allRecords[r], games[j])

\* C5: no step changes the date_created of a Record that is in the collection
\* before and after it, and the write of a batch gives every record written
\* as Changed the run's timestamp as date_updated while it keeps the
\* date_created the snapshot showed.
C5_Step ==
  /\ \A j \in 1..Len(games) : \A k \in DocsWithId(games', games[j].id) :
       games'[k].date_created = games[j].date_created
  /\ (pc = "Games" /\ pc' = "Search") =>
       \A b \in 1..Len(gamesBatch) :
         gamesBatch[b].id \in DOMAIN existingGamesMap =>
           \E k \in DocsWithId(games', gamesBatch[b].id) :
             /\ games'[k].date_updated = currentTimestamp
             /\ games'[k].date_created = existingGamesMap[gamesBatch[b].id].date_created

C6_NewUpserted ==
  Ended("Done") =>
    \A n \in 1..Len(changesAnalysis.newGames) :
      LET docs == DocsWithId(games, changesAnalysis.newGames[n].id)
      IN /\ Cardinality(docs) = 1
         /\ \A j \in docs : games[j].date_created = games[j].date_updated

\* C7: hasGameDataChanged returns false exactly when every compared field
\* matches (numbers within 0.001, two absent values matching), and true when
\* a field differs beyond the tolerance or is present on one side only.
FieldDiffers(f, a, b) ==
  \/ Has(a, f) # Has(b, f)
  \/ /\ Has(a, f) /\ Has(b, f)
     /\ IF f \in NumericFields THEN Abs(a[f] - b[f]) > Tolerance ELSE a[f] # b[f]

C7_DiffCorrect ==
  pc = "Returned" =>
    /\ (ret = FALSE) <=> (\A f \in CompareFields : FieldAgrees(f, arg[1], arg[2]))
    /\ (ret = TRUE) <=> (\E f \in CompareFields : FieldDiffers(f, arg[1], arg[2]))

\* Two documents whose bayes_average differs by less than the tolerance were
\* compared and found unchanged.
C7_Witness ==
  /\ pc = "Returned" /\ ret = FALSE
  /\ Has(arg[1], "bayes_average") /\ Has(arg[2], "bayes_average")
  /\ arg[1].bayes_average # arg[2].bayes_average

\* C8: analyzeChanges puts every decoded record in exactly one of New,
\* Changed and Unchanged, New being the records whose id is no key of the
\* snapshot, and the three sizes add up to the number of decoded records.
RECURSIVE IsSubSeq(_, _)
IsSubSeq(sub, s) ==
  IF sub = <<>> THEN TRUE
  ELSE IF s = <<>> THEN FALSE
  ELSE IF Head(sub) = Head(s) THEN IsSubSeq(Tail(sub), Tail(s))
  ELSE IsSubSeq(sub, Tail(s))

C8_Partition ==
  pc = "Returned" =>
    LET recs == arg[1]
        keys == IdsOf(arg[2])
    IN /\ ret.newGames = SelectSeq(recs, LAMBDA g : g.id \notin keys)
       /\ IsSubSeq(ret.updatedGames, SelectSeq(recs, LAMBDA g : g.id \in keys))
       /\ ret.unchangedCount >= 0
       /\ Len(ret.newGames) + Len(ret.updatedGames) + ret.unchangedCount = Len(recs)

\* A call that found a New, and a call that found a Changed and an Unchanged
\* record.
C8_Witness ==
  /\ pc = "Returned"
  /\ Len(ret.newGames) = 1 /\ Len(ret.updatedGames) = 1 /\ Len(arg[1]) = 2

\* C9: when batch N has failed twice and the run has ended, both collections
\* are as they were when batch N was first attempted: they hold the writes of
\* the batches before N and no write of batch N.
C9_BatchIsolation ==
  (Ended("Failed") /\ failedIn = "write" /\ phase = "retry") =>
    games = batchStart[1] /\ search = batchStart[2]

\* C10: a failed bulkWrite of a batch is followed by one retry that starts
\* with a connectivity check, for the batches of the loop and for the final
\* partial batch, and no batch is attempted more than twice.
FailedAt == {p \in 1..Len(batchLog) : batchLog[p] \in {"games failed", "search failed"}}

C10_SingleRetry ==
  /\ Cardinality({p \in 1..Len(batchLog) : batchLog[p] \in {"ensure", "ensure failed"}}) <= 2
  /\ (FailedAt # {} /\ pc \notin {"Ensure", "Games", "Search"}) =>
       \E p \in FailedAt :
         p < Len(batchLog) /\ batchLog[p + 1] \in {"ensure", "ensure failed"}

\* ------------------------------------------------- resortCollection, on its own
\* The two resorts of a run, started on collections of up to MaxDocs documents
\* in every order; a signal may stop the process at any step.
ResortNames == <<"Zed", "ant", "Ant", "Bee", "bee">>

GameDocOf(k) ==
  Stored(With(With(SeedRecords[1], "id", Num(k)), "name",
              ResortNames[((k - 1) % Len(ResortNames)) + 1]))

SearchDocOf(doc) ==
  [id |-> doc.id, name |-> doc.name,
   date_created |-> doc.date_created, date_updated |-> doc.date_updated]

Orders(n) == {p \in [1..n -> 1..n] : \A a, b \in 1..n : p[a] = p[b] => a = b}

Reverse(s) == [j \in 1..Len(s) |-> s[Len(s) + 1 - j]]

InitResort ==
  /\ \E n \in 0..MaxDocs : \E p \in Orders(n) :
       games = [j \in 1..n |-> GameDocOf(p[j])]
  /\ LET entries == [j \in 1..Len(games) |-> SearchDocOf(games[j])]
     IN search \in {entries, Reverse(entries)}
  /\ batchSize = BatchSizeLocal
  /\ pc = "ResortFind"
  /\ arg = <<>> /\ ret = <<>>
  /\ runImmediately = FALSE /\ runs = <<>> /\ bggJob = NoJob
  /\ NoRun

\* SIGINT, SIGTERM or SIGQUIT while a resort is under way: the shutdown handler
\* disconnects and calls process.exit; the store stays as it is.
Shutdown ==
  /\ pc \in {"ResortFind", "ResortStage", "ResortDelete", "ResortFindTemp",
             "ResortReinsert", "ResortDrop"}
  /\ pc' = "Stopped"
  /\ UNCHANGED others /\ UNCHANGED <<arg, ret>>

NextResort ==
  \/ ResortFind
  \/ ResortStage
  \/ ResortDelete
  \/ ResortFindTemp
  \/ ResortReinsert
  \/ ResortDrop
  \/ ResortStepFail
  \/ ResortStageFail
  \/ ResortReinsertFail
  \/ Shutdown

SpecResort == InitResort /\ [][NextResort]_vars

\* ------------------------------------------------ the 'data' handler, on its own
\* Rows with the id and name columns present or missing, and texts that
\* parseInt and parseFloat accept, accept in part, and reject.
DecodeIds == {<<"1">>, <<"2", "b">>, <<" ", "7">>, <<"0">>, <<"x">>, <<>>}
DecodeNames == {"Ant", ""}
DecodeRanks == {<<"5">>, <<"1", "2", ".", "9">>, <<"x">>, <<>>}
DecodeBayes == {<<"7", ".", "5">>, <<"n">>, <<>>}

\* The other numeric columns, and the texts they are given in turn.
DecodeColumns == {"yearpublished", "average", "usersrated", "abstracts_rank"}
DecodeTexts == {<<"4">>, <<"x">>, <<>>}

DecodeRows ==
  LET full == {Row(id, name, rank, bayes) :
                 id \in DecodeIds, name \in DecodeNames,
                 rank \in DecodeRanks, bayes \in DecodeBayes}
  IN full \cup {Without(r, "id") : r \in full}
          \cup {Without(r, "name") : r \in full}
          \cup {Without(Without(r, "id"), "name") : r \in full}
          \cup {With(r, c, t) : r \in full, c \in DecodeColumns, t \in DecodeTexts}
          \cup {Without(r, c) : r \in full, c \in DecodeColumns}

InitDecode ==
  /\ games = <<>> /\ search = <<>>
  /\ batchSize = BatchSizeLocal
  /\ pc = "Call"
  /\ arg \in {<<row>> : row \in DecodeRows}
  /\ ret = <<>>
  /\ runImmediately = FALSE /\ runs = <<>> /\ bggJob = NoJob
  /\ NoRun

\* The 'data' handler applied to the row arg[1], allRecords being empty: ret
\* is allRecords after it.
CallOnData ==
  /\ pc = "Call"
  /\ pc' = "Returned"
  /\ LET gameDoc == DecodeRow(arg[1])
     IN ret' = IF KeepRow(gameDoc) THEN Append(<<>>, gameDoc) ELSE <<>>
  /\ UNCHANGED <<arg, others>>

SpecDecode == InitDecode /\ [][CallOnData]_vars

\* ------------------------------------------------------------- the trigger
\* BGMarketWorker.initialize after the database is connected, and the job it
\* starts.  start() schedules executeJob on every tick of the cron
\* expression; node-cron calls the task on a tick whether or not the promise
\* of an earlier call has settled, and runNow() calls executeJob directly.
\* BGGDataJob has the same start() and runNow().  An execution is
\* [by |-> its caller, at |-> its stage, calls |-> the callbacks it invoked]:
\* "download" (await downloadAndExtract), "onSuccess" or "onError" (await the
\* callback, which writes to the store), then "returned" or "thrown".
processor ==
  <<store, batchSize, clock, failures, pc, decodeVars, diffVars, batchVars,
    resortVars, endVars, histVars, arg, ret, runs, bggJob>>

untriggered == <<processor, files>>

InitTrigger ==
  /\ runs = <<>> /\ bggJob = NoJob
  /\ games = <<>> /\ search = <<>>
  /\ batchSize = BatchSizeLocal
  /\ pc = "Idle"
  /\ arg = <<>> /\ ret = <<>>
  /\ runImmediately \in BOOLEAN
  /\ NoRun

InProgress == {e \in 1..Len(executions) : executions[e].at \in {"download", "onSuccess", "onError"}}

NewExecution(caller) == [by |-> caller, at |-> "download", calls |-> <<>>]

\* setupDataFetchJob: dataFetchJob.start(), and with RUN_IMMEDIATELY the call
\* of runNow() up to the first await of executeJob.  Without RUN_IMMEDIATELY
\* nothing is awaited, and initialize goes on to setupGracefulShutdown in the
\* same turn of the event loop.
SetupDataFetchJob ==
  /\ proc = "running" /\ setup = "new"
  /\ job' = "started"
  /\ IF runImmediately
       THEN /\ setup' = "runNow"
            /\ executions' = Append(executions, NewExecution("runNow"))
            /\ UNCHANGED handlers
       ELSE /\ setup' = "initialized" /\ handlers' = TRUE
            /\ UNCHANGED executions
  /\ UNCHANGED <<runImmediately, proc, isShuttingDown, db, shutdownLog, signals,
                 untriggered>>

\* A tick of the schedule: the task calls executeJob.
CronTick ==
  /\ proc = "running" /\ job = "started" /\ Len(executions) < MaxExecutions
  /\ executions' = Append(executions, NewExecution("cron"))
  /\ UNCHANGED <<job, setup, runImmediately, worker, untriggered>>

\* downloadAndExtract returns: executeJob calls and awaits onSuccess.
Downloaded ==
  /\ proc = "running"
  /\ \E e \in 1..Len(executions) :
       /\ executions[e].at = "download"
       /\ executions' = [executions EXCEPT ![e].at = "onSuccess",
                                           ![e].calls = Append(@, "onSuccess")]
  /\ UNCHANGED <<job, setup, runImmediately, worker, untriggered>>

\* downloadAndExtract throws: the catch block calls and awaits onError.
DownloadFailed ==
  /\ proc = "running"
  /\ \E e \in 1..Len(executions) :
       /\ executions[e].at = "download"
       /\ executions' = [executions EXCEPT ![e].at = "onError",
                                           ![e].calls = Append(@, "onError")]
  /\ UNCHANGED <<job, setup, runImmediately, worker, untriggered>>

\* onSuccess throws, handleJobSuccess being without its try and catch: the
\* catch block of executeJob calls onError.
CallbackRethrows ==
  /\ proc = "running"
  /\ \E e \in 1..Len(executions) :
       /\ executions[e].at \in {"onSuccess", "onError"}
       /\ executions' =
            [executions EXCEPT
               ![e].at = IF executions[e].at = "onSuccess" THEN "onError" ELSE "thrown",
               ![e].calls = IF executions[e].at = "onSuccess"
                              THEN Append(@, "onError") ELSE @]
  /\ UNCHANGED <<job, setup, runImmediately, worker, untriggered>>

\* The rejection of a scheduled execution reaching the 'unhandledRejection'
\* handler of index.js, which exits.
CallbackReturnsUnhandled ==
  /\ proc = "running"
  /\ \E e \in 1..Len(executions) :
       /\ executions[e].at \in {"onSuccess", "onError"}
       /\ executions' =
            [executions EXCEPT ![e].at =
               IF executions[e].at = "onSuccess" THEN "returned" ELSE "thrown"]
       /\ proc' = IF executions[e].at = "onError" /\ executions[e].by = "cron"
                    THEN "exited" ELSE proc
  /\ UNCHANGED <<job, setup, runImmediately, handlers, isShuttingDown, db,
                 shutdownLog, signals, untriggered>>

\* The callback returns (handleJobSuccess and handleJobError catch their own
\* errors): executeJob returns the path after onSuccess and rethrows the
\* error after onError.  The task of a tick then rejects; node-cron catches
\* the rejection of a task and emits 'task-failed', so nothing is unhandled.
CallbackReturns ==
  /\ proc = "running"
  /\ \E e \in 1..Len(executions) :
       /\ executions[e].at \in {"onSuccess", "onError"}
       /\ executions' =
            [executions EXCEPT ![e].at =
               IF executions[e].at = "onSuccess" THEN "returned" ELSE "thrown"]
  /\ UNCHANGED <<job, setup, runImmediately, worker, untriggered>>

\* await dataFetchJob.runNow() settles, an error being caught and logged, and
\* initialize goes on to setupGracefulShutdown.
RunNowSettles ==
  /\ proc = "running" /\ setup = "runNow"
  /\ \E e \in 1..Len(executions) :
       executions[e].by = "runNow" /\ executions[e].at \in {"returned", "thrown"}
  /\ setup' = "initialized" /\ handlers' = TRUE
  /\ UNCHANGED <<job, executions, runImmediately, proc, isShuttingDown, db,
                 shutdownLog, signals, untriggered>>

\* SIGINT, SIGTERM or SIGQUIT.  Before the handlers are registered the signal
\* ends the process.  The first signal after that sets isShuttingDown, stops
\* every job and calls database.disconnect(); a later one returns at once.
Signal ==
  /\ proc = "running" /\ setup # "new" /\ signals < MaxSignals
  /\ signals' = signals + 1
  /\ IF ~handlers
       THEN proc' = "killed" /\ UNCHANGED <<job, isShuttingDown, shutdownLog>>
       ELSE /\ UNCHANGED proc
            /\ IF isShuttingDown
                 THEN UNCHANGED <<job, isShuttingDown, shutdownLog>>
                 ELSE /\ isShuttingDown' = TRUE
                      /\ job' = "stopped"
                      /\ shutdownLog' = Append(shutdownLog, "stop")
  /\ UNCHANGED <<setup, executions, runImmediately, handlers, db, untriggered>>

\* await this.database.disconnect() returns: process.exit(0).
Disconnected ==
  /\ proc = "running" /\ isShuttingDown
  /\ db' = "disconnected" /\ proc' = "exited"
  /\ shutdownLog' = shutdownLog \o <<"disconnect", "exit">>
  /\ UNCHANGED <<job, setup, executions, runImmediately, handlers, isShuttingDown,
                 signals, untriggered>>

\* database.disconnect() throws: the catch block calls process.exit(1).
DisconnectFailed ==
  /\ proc = "running" /\ isShuttingDown
  /\ proc' = "exited"
  /\ shutdownLog' = shutdownLog \o <<"disconnect failed", "exit">>
  /\ UNCHANGED <<job, setup, executions, runImmediately, handlers, isShuttingDown,
                 db, signals, untriggered>>

NextTrigger ==
  \/ SetupDataFetchJob
  \/ CronTick
  \/ Downloaded
  \/ DownloadFailed
  \/ CallbackReturns
  \/ RunNowSettles
  \/ Signal
  \/ Disconnected
  \/ DisconnectFailed

SpecTrigger == InitTrigger /\ [][NextTrigger]_vars

\* ---------------------------------------------------------- overlapping runs
\* Two calls of processCsvFile in progress on the same store, each from its
\* 'end' handler on.  runs[r] holds the locals of run r; the collections
\* are shared, and each run has a staging collection of its own name.  A step
\* is the code between two store requests; no request fails here.
OverlapRuns == 1..2
OverlapFiles == {<<2>>, <<5>>, <<2, 5>>}

NewRun(f) ==
  [pc |-> "Find", allRecords |-> DecodeFile(f), gamesToProcess |-> <<>>,
   currentTimestamp |-> 0, next |-> 0, coll |-> "games", allDocs |-> <<>>,
   staging |-> <<>>, sortedDocs |-> <<>>, i |-> 0]

unshared ==
  <<temp, orphans, batchSize, arg, ret, trigger, files, clock, failures, pc,
    decodeVars, diffVars, batchVars, resortVars, endVars, histVars, bggJob>>

InitOverlap ==
  /\ \/ games = <<>> /\ search = <<>>
     \/ games = SeedGames /\ search = SeedSearch
  /\ batchSize = BatchSizeLocal
  /\ pc = "Idle"
  /\ arg = <<>> /\ ret = <<>>
  /\ runImmediately = FALSE
  /\ runs \in [OverlapRuns -> {NewRun(f) : f \in OverlapFiles}]
  /\ bggJob = NoJob
  /\ NoRun

\* The collection run r is resorting.
CollOf(r) == IF runs[r].coll = "games" THEN games ELSE search

SetCollOf(r, docs) ==
  IF runs[r].coll = "games" THEN games' = docs /\ UNCHANGED search
                            ELSE search' = docs /\ UNCHANGED games

\* The records of the batch run r is writing.
BatchOf(r) ==
  SubSeq(runs[r].gamesToProcess, runs[r].next + 1,
         Min(runs[r].next + batchSize, Len(runs[r].gamesToProcess)))

\* resortCollection of run r returns: the SearchEntry collection is next,
\* and after it the promise resolves.
ResortReturnsOf(r) ==
  IF runs[r].coll = "games"
    THEN [runs[r] EXCEPT !.pc = "ResortFind", !.coll = "search", !.allDocs = <<>>,
                         !.sortedDocs = <<>>, !.i = 0]
    ELSE [runs[r] EXCEPT !.pc = "Done", !.allDocs = <<>>, !.sortedDocs = <<>>, !.i = 0]

\* The 'end' handler of run r up to its first write: snapshot and analysis.
\* A run that reads the clock after the other has a later timestamp.
OverlapFind(r) ==
  /\ runs[r].pc = "Find"
  /\ LET map == BuildMap(games)
         analysis == analyzeChanges(runs[r].allRecords, map)
         hasChanges == Len(analysis.newGames) > 0 \/ Len(analysis.updatedGames) > 0
         now == 1 + Cardinality({q \in OverlapRuns : runs[q].pc # "Find"})
     IN runs' = [runs EXCEPT ![r] =
                   IF ~hasChanges THEN [@ EXCEPT !.pc = "Done"]
                   ELSE [@ EXCEPT !.pc = "Games",
                                  !.gamesToProcess =
                                    SortByName(analysis.newGames \o analysis.updatedGames),
                                  !.currentTimestamp = now]]
  /\ UNCHANGED <<games, search, unshared>>

\* gamesCollection.bulkWrite of the next batch of run r.
OverlapWriteGames(r) ==
  /\ runs[r].pc = "Games"
  /\ LET recs == BatchOf(r)
     IN games' = bulkWrite(games, [k \in 1..Len(recs) |->
                                     GameOp(recs[k], runs[r].currentTimestamp)])
  /\ runs' = [runs EXCEPT ![r].pc = "Search"]
  /\ UNCHANGED <<search, unshared>>

\* searchCollection.bulkWrite of the batch, and the loop up to the next write
\* or to the resort.
OverlapWriteSearch(r) ==
  /\ runs[r].pc = "Search"
  /\ LET recs == BatchOf(r)
         done == runs[r].next + Len(recs)
     IN /\ search' = bulkWrite(search, [k \in 1..Len(recs) |->
                                          SearchOp(recs[k], runs[r].currentTimestamp)])
        /\ runs' = [runs EXCEPT ![r] =
                      [@ EXCEPT !.next = done,
                                !.pc = IF done < Len(runs[r].gamesToProcess)
                                         THEN "Games" ELSE "ResortFind",
                                !.coll = "games"]]
  /\ UNCHANGED <<games, unshared>>

\* resortCollection of run r: find, sort, fresh staging collection.
OverlapResortFind(r) ==
  /\ runs[r].pc = "ResortFind"
  /\ runs' = [runs EXCEPT ![r] =
                IF CollOf(r) = <<>> THEN ResortReturnsOf(r)
                ELSE [@ EXCEPT !.pc = "ResortStage", !.allDocs = SortByName(CollOf(r)),
                               !.staging = <<>>, !.i = 0]]
  /\ UNCHANGED <<games, search, unshared>>

\* tempCollection.insertMany of the next slice.
OverlapResortStage(r) ==
  /\ runs[r].pc = "ResortStage"
  /\ runs' = [runs EXCEPT ![r] =
                [@ EXCEPT !.staging = @ \o SubSeq(runs[r].allDocs, runs[r].i + 1,
                                                  Min(runs[r].i + ResortBatchSize,
                                                      Len(runs[r].allDocs))),
                          !.i = @ + ResortBatchSize,
                          !.pc = IF runs[r].i + ResortBatchSize < Len(runs[r].allDocs)
                                   THEN "ResortStage" ELSE "ResortDelete"]]
  /\ UNCHANGED <<games, search, unshared>>

\* collection.deleteMany({}).
OverlapResortDelete(r) ==
  /\ runs[r].pc = "ResortDelete"
  /\ SetCollOf(r, <<>>)
  /\ runs' = [runs EXCEPT ![r].pc = "ResortFindTemp"]
  /\ UNCHANGED unshared

\* tempCollection.find({}).toArray().
OverlapResortFindTemp(r) ==
  /\ runs[r].pc = "ResortFindTemp"
  /\ runs' = [runs EXCEPT ![r] =
                [@ EXCEPT !.pc = "ResortReinsert", !.sortedDocs = runs[r].staging,
                          !.i = 0]]
  /\ UNCHANGED <<games, search, unshared>>

\* collection.insertMany of the next slice.
OverlapResortReinsert(r) ==
  /\ runs[r].pc = "ResortReinsert"
  /\ SetCollOf(r, CollOf(r) \o SubSeq(runs[r].sortedDocs, runs[r].i + 1,
                                      Min(runs[r].i + ResortBatchSize,
                                          Len(runs[r].sortedDocs))))
  /\ runs' = [runs EXCEPT ![r] =
                [@ EXCEPT !.i = @ + ResortBatchSize,
                          !.pc = IF runs[r].i + ResortBatchSize < Len(runs[r].sortedDocs)
                                   THEN "ResortReinsert" ELSE "ResortDrop"]]
  /\ UNCHANGED unshared

\* The drop of the staging collection of run r; its resortCollection returns.
OverlapResortDrop(r) ==
  /\ runs[r].pc = "ResortDrop"
  /\ runs' = [runs EXCEPT ![r] = [ResortReturnsOf(r) EXCEPT !.staging = <<>>]]
  /\ UNCHANGED <<games, search, unshared>>

NextOverlap ==
  \/ \E r \in OverlapRuns : OverlapFind(r)
  \/ \E r \in OverlapRuns : OverlapWriteGames(r)
  \/ \E r \in OverlapRuns : OverlapWriteSearch(r)
  \/ \E r \in OverlapRuns : OverlapResortFind(r)
  \/ \E r \in OverlapRuns : OverlapResortStage(r)
  \/ \E r \in OverlapRuns : OverlapResortDelete(r)
  \/ \E r \in OverlapRuns : OverlapResortFindTemp(r)
  \/ \E r \in OverlapRuns : OverlapResortReinsert(r)
  \/ \E r \in OverlapRuns : OverlapResortDrop(r)

SpecOverlap == InitOverlap /\ [][NextOverlap]_vars

\* ------------------------------------------------------------- BGGDataJob
\* executeJob, one step for each await.  The constructor leaves urlFetcher
\* undefined; a caller may have assigned one.  The download url, the
\* extraction and processCsvFile each return or throw; logJobExecution and
\* updateJobStatus catch the error of their store request and return.
unjobbed ==
  <<store, batchSize, arg, ret, trigger, files, runs, clock, failures, pc,
    decodeVars, diffVars, batchVars, resortVars, endVars, histVars>>

InitJob ==
  /\ games = <<>> /\ search = <<>>
  /\ batchSize = BatchSizeLocal
  /\ pc = "Idle"
  /\ arg = <<>> /\ ret = <<>>
  /\ runImmediately = FALSE /\ runs = <<>>
  /\ bggJob \in {[NoJob EXCEPT !.urlFetcher = u] : u \in BOOLEAN}
  /\ NoRun

Requested(step) == Append(bggJob.requests, step)

\* The try block threw: the catch block starts.
Caught(step, error) ==
  [bggJob EXCEPT !.pc = "logError", !.error = error, !.requests = Requested(step)]

\* executeJob is called; with no urlFetcher the first statement throws a
\* TypeError.
ExecuteJob ==
  /\ bggJob.pc = "idle" /\ bggJob.calls < MaxExecutions
  /\ bggJob' =
       LET called == [bggJob EXCEPT !.calls = @ + 1, !.requests = <<>>,
                                    !.error = "none", !.thrown = "none",
                                    !.returned = FALSE]
       IN IF bggJob.urlFetcher
            THEN [called EXCEPT !.pc = "url"]
            ELSE [called EXCEPT !.pc = "logError", !.error = "TypeError",
                                !.requests = <<"url threw">>]
  /\ UNCHANGED unjobbed

\* Steps 1 to 3 of executeJob, each returning.
JobStepReturns ==
  /\ bggJob.pc \in {"url", "download", "process"}
  /\ bggJob' =
       CASE bggJob.pc = "url" ->
              [bggJob EXCEPT !.pc = "download", !.requests = Requested("url")]
         [] bggJob.pc = "download" ->
              [bggJob EXCEPT !.pc = "process", !.requests = Requested("download")]
         [] bggJob.pc = "process" ->
              [bggJob EXCEPT !.pc = "statusCompleted",
                             !.requests = Requested("process resolved")]
  /\ UNCHANGED unjobbed

\* Steps 1 to 3 of executeJob, each throwing.
JobStepThrows ==
  /\ bggJob.pc \in {"url", "download", "process"}
  /\ bggJob' = Caught(bggJob.pc \o " threw", bggJob.pc)
  /\ UNCHANGED unjobbed

\* After updateJobStatus or logJobExecution has returned.
AfterRequest(step) ==
  CASE bggJob.pc = "statusCompleted" ->
         [bggJob EXCEPT !.pc = "logSuccess", !.requests = Requested(step)]
    [] bggJob.pc = "logSuccess" ->
         [bggJob EXCEPT !.pc = "idle", !.returned = TRUE, !.requests = Requested(step)]
    [] bggJob.pc = "logError" ->
         [bggJob EXCEPT !.pc = "statusFailed", !.requests = Requested(step)]
    [] bggJob.pc = "statusFailed" ->
         [bggJob EXCEPT !.pc = "idle", !.thrown = bggJob.error,
                        !.requests = Requested(step)]

\* A logJobExecution whose error reaches executeJob: in the try block it
\* starts the catch block, in the catch block it replaces the error thrown.
LogJobExecutionThrows ==
  /\ bggJob.pc \in {"logSuccess", "logError"}
  /\ bggJob.faults < MaxFailures
  /\ bggJob' =
       IF bggJob.pc = "logSuccess"
         THEN [Caught("log threw", "log") EXCEPT !.faults = @ + 1]
         ELSE [bggJob EXCEPT !.pc = "idle", !.thrown = "log", !.faults = @ + 1,
                             !.requests = Requested("log threw")]
  /\ UNCHANGED unjobbed

\* updateJobStatus('bgg_data_fetch', 'completed' or 'failed').
UpdateJobStatus ==
  /\ bggJob.pc \in {"statusCompleted", "statusFailed"}
  /\ LET status == IF bggJob.pc = "statusCompleted" THEN "completed" ELSE "failed"
     IN bggJob' = [AfterRequest("status " \o status) EXCEPT !.status = status]
  /\ UNCHANGED unjobbed

\* The store request of updateJobStatus fails: logged, not thrown.
UpdateJobStatusFails ==
  /\ bggJob.pc \in {"statusCompleted", "statusFailed"}
  /\ bggJob.faults < MaxFailures
  /\ bggJob' = [AfterRequest("status not written") EXCEPT !.faults = @ + 1]
  /\ UNCHANGED unjobbed

\* logJobExecution with status 'success' or 'error'.
LogJobExecution ==
  /\ bggJob.pc \in {"logSuccess", "logError"}
  /\ LET status == IF bggJob.pc = "logSuccess" THEN "success" ELSE "error"
     IN bggJob' = [AfterRequest("log " \o status) EXCEPT !.logs = Append(@, status)]
  /\ UNCHANGED unjobbed

\* The store request of logJobExecution fails: logged, not thrown.
LogJobExecutionFails ==
  /\ bggJob.pc \in {"logSuccess", "logError"}
  /\ bggJob.faults < MaxFailures
  /\ bggJob' = [AfterRequest("log not written") EXCEPT !.faults = @ + 1]
  /\ UNCHANGED unjobbed

NextJob ==
  \/ ExecuteJob
  \/ JobStepReturns
  \/ JobStepThrows
  \/ UpdateJobStatus
  \/ UpdateJobStatusFails
  \/ LogJobExecution
  \/ LogJobExecutionFails

SpecJob == InitJob /\ [][NextJob]_vars

\* --------------------------------------------------------- TimestampAdder
\* addTimestampsToCollection on the Record collection.  A document that
\* processCsvFile inserted has both timestamps, a document older than the
\* timestamps has none, and such a document has date_updated only once
\* processCsvFile has updated it.  clock counts the calls; the timestamp of a
\* call is later than every timestamp in the store.
BackfillDocs ==
  UNION {{d, Without(d, "date_created"),
          Without(Without(d, "date_created"), "date_updated")} :
           d \in {GameDocOf(k) : k \in 1..2}}

BackfillTimestamp == 7 + clock

\* { $or: [{ date_created: { $exists: false } }, { date_updated: { $exists: false } }] }
WithoutTimestamps(doc) == ~Has(doc, "date_created") \/ ~Has(doc, "date_updated")

\* collection.updateMany(filter, { $set: { date_created, date_updated } }).
updateMany(docs, timestamp) ==
  [j \in 1..Len(docs) |->
     IF WithoutTimestamps(docs[j])
       THEN One("date_created", timestamp) @@ One("date_updated", timestamp) @@ docs[j]
       ELSE docs[j]]

unstamped ==
  <<search, temp, orphans, batchSize, arg, trigger, files, runs, bggJob, failures,
    decodeVars, diffVars, batchVars, resortVars, endVars, histVars>>

InitBackfill ==
  /\ games \in SeqsUpTo(BackfillDocs, 2) /\ search = <<>>
  /\ batchSize = BatchSizeLocal
  /\ pc = "Returned"
  /\ arg = <<>> /\ ret = <<>>
  /\ runImmediately = FALSE /\ runs = <<>> /\ bggJob = NoJob
  /\ NoRun

\* addTimestampsToCollection is called.
CallAddTimestamps ==
  /\ pc = "Returned" /\ clock < MaxRuns
  /\ pc' = "Count" /\ clock' = clock + 1 /\ ret' = <<>>
  /\ UNCHANGED <<games, unstamped>>

\* countDocuments of the documents without timestamps; none: return.
CountWithoutTimestamps ==
  /\ pc = "Count"
  /\ LET documentsWithoutTimestamps ==
           Cardinality({j \in 1..Len(games) : WithoutTimestamps(games[j])})
     IN /\ ret' = <<documentsWithoutTimestamps>>
        /\ pc' = IF documentsWithoutTimestamps = 0 THEN "Returned" ELSE "Update"
  /\ UNCHANGED <<games, clock, unstamped>>

\* The updateMany, and the return.
UpdateWithoutTimestamps ==
  /\ pc = "Update"
  /\ games' = updateMany(games, BackfillTimestamp)
  /\ pc' = "Returned"
  /\ UNCHANGED <<clock, ret, unstamped>>

NextBackfill ==
  \/ CallAddTimestamps
  \/ CountWithoutTimestamps
  \/ UpdateWithoutTimestamps

SpecBackfill == InitBackfill /\ [][NextBackfill]_vars

\* ------------------------------------------------------------ FileExtractor
\* downloadAndExtract.  The url ends in an extension; the archive it serves
\* is unreadable ("corrupt"), has no CSV entry ("empty"), or has the entry
\* CsvName with the content "v1" or "v2".  dataDir.temps holds the
\* temporary archives, each with the Date.now() of its name, and
\* dataDir.csvs the content of each CSV file.
Extensions == {".zip", ".rar", ".txt"}
Archives == {"corrupt", "empty", "v1", "v2"}
CsvName == "boardgames_ranks.csv"

unextracted == <<processor, trigger>>

InitExtract ==
  /\ games = <<>> /\ search = <<>>
  /\ batchSize = BatchSizeLocal
  /\ pc = "Idle"
  /\ arg = <<>> /\ ret = <<>>
  /\ runImmediately = FALSE /\ runs = <<>> /\ bggJob = NoJob
  /\ NoRun

\* The catch block of downloadAndExtract: log and rethrow.
Thrown == [extractor EXCEPT !.pc = "idle", !.outcome = "thrown"]

\* downloadAndExtract(url) up to the download: getFileExtension throws for an
\* extension other than .zip and .rar.
CallDownloadAndExtract ==
  /\ extractor.pc = "idle" /\ extractor.calls < MaxCalls
  /\ \E ext \in Extensions, a \in Archives :
       extractor' =
         IF ext \notin {".zip", ".rar"}
           THEN [NoCall EXCEPT !.outcome = "thrown", !.calls = extractor.calls + 1]
           ELSE [NoCall EXCEPT !.pc = "download", !.ext = ext, !.archive = a,
                               !.temp = extractor.calls + 1,
                               !.calls = extractor.calls + 1]
  /\ UNCHANGED <<dataDir, unextracted>>

\* downloadFile has written the archive to the temporary file.
DownloadFile ==
  /\ extractor.pc = "download"
  /\ dataDir' = [dataDir EXCEPT !.temps =
                   @ \cup {[name |-> extractor.temp, ext |-> extractor.ext]}]
  /\ extractor' = [extractor EXCEPT !.pc = "extract"]
  /\ UNCHANGED unextracted

\* The request of downloadFile fails before a file is created.
DownloadFileFailed ==
  /\ extractor.pc = "download"
  /\ extractor' = Thrown
  /\ UNCHANGED <<dataDir, unextracted>>

\* What an extractor does with a readable archive that has the CSV entry: an
\* existing file of that name is kept as it is, else the entry is written.
ExtractCsv ==
  IF CsvName \in DOMAIN dataDir.csvs
    THEN dataDir
    ELSE [dataDir EXCEPT !.csvs = One(CsvName, extractor.archive) @@ @]

\* extractZip.
ExtractZip ==
  /\ extractor.pc = "extract" /\ extractor.ext = ".zip"
  /\ IF extractor.archive \in {"corrupt", "empty"}
       THEN extractor' = Thrown /\ UNCHANGED dataDir
       ELSE /\ dataDir' = ExtractCsv
            /\ extractor' = [extractor EXCEPT !.pc = "cleanup", !.csvPath = CsvName]
  /\ UNCHANGED unextracted

\* An extractor of extractRar has returned, or has thrown.
Tried(by, threw) == Append(extractor.tried, [by |-> by, threw |-> threw])

\* extractRarWithNodeUnrar; when it throws extractRar turns to the system
\* unrar.
ExtractRarWithNodeUnrar ==
  /\ extractor.pc = "extract" /\ extractor.ext = ".rar"
  /\ IF extractor.archive \in {"corrupt", "empty"}
       THEN /\ extractor' = [extractor EXCEPT !.pc = "systemUnrar",
                                              !.tried = Tried("node-unrar-js", TRUE)]
            /\ UNCHANGED dataDir
       ELSE /\ dataDir' = ExtractCsv
            /\ extractor' = [extractor EXCEPT !.pc = "cleanup", !.csvPath = CsvName,
                                              !.tried = Tried("node-unrar-js", FALSE)]
  /\ UNCHANGED unextracted

\* An extractRar whose catch block rethrows.
NodeUnrarFailedThrows ==
  /\ extractor.pc = "extract" /\ extractor.ext = ".rar"
  /\ extractor' = [Thrown EXCEPT !.tried = Tried("node-unrar-js", TRUE)]
  /\ UNCHANGED <<dataDir, unextracted>>

\* node-unrar-js throws on an archive the system unrar can read.
NodeUnrarFailed ==
  /\ extractor.pc = "extract" /\ extractor.ext = ".rar"
  /\ extractor' = [extractor EXCEPT !.pc = "systemUnrar",
                                    !.tried = Tried("node-unrar-js", TRUE)]
  /\ UNCHANGED <<dataDir, unextracted>>

\* extractRarWithSystemUnrar.
ExtractRarWithSystemUnrar ==
  /\ extractor.pc = "systemUnrar"
  /\ IF extractor.archive \in {"corrupt", "empty"}
       THEN /\ extractor' = [Thrown EXCEPT !.tried = Tried("unrar", TRUE)]
            /\ UNCHANGED dataDir
       ELSE /\ dataDir' = ExtractCsv
            /\ extractor' = [extractor EXCEPT !.pc = "cleanup", !.csvPath = CsvName,
                                              !.tried = Tried("unrar", FALSE)]
  /\ UNCHANGED unextracted

\* The unrar command is missing or exits with an error.
SystemUnrarFailed ==
  /\ extractor.pc = "systemUnrar"
  /\ extractor' = [Thrown EXCEPT !.tried = Tried("unrar", TRUE)]
  /\ UNCHANGED <<dataDir, unextracted>>

\* fs.remove(tempFilePath), and the return of the path.
CleanUp ==
  /\ extractor.pc = "cleanup"
  /\ dataDir' = [dataDir EXCEPT !.temps = {f \in @ : f.name # extractor.temp}]
  /\ extractor' = [extractor EXCEPT !.pc = "idle", !.outcome = "returned"]
  /\ UNCHANGED unextracted

NextExtract ==
  \/ CallDownloadAndExtract
  \/ DownloadFile
  \/ DownloadFileFailed
  \/ ExtractZip
  \/ ExtractRarWithNodeUnrar
  \/ NodeUnrarFailed
  \/ ExtractRarWithSystemUnrar
  \/ SystemUnrarFailed
  \/ CleanUp

SpecExtract == InitExtract /\ [][NextExtract]_vars

\* C11: when a run that began to decode ends Failed, the error it delivers
\* carries the partial counters of the run: the records seen and the records
\* written before the failure.
C11_PartialCounters ==
  (Ended("Failed") /\ failedIn \in {"stream", "snapshot", "write"}) =>
    /\ Has(result, "checked") /\ result.checked = checked
    /\ Has(result, "totalProcessed") /\ result.totalProcessed = totalProcessed

\* C12: when the retry of batch N has failed and the run has ended Failed,
\* the writes of the batches before N are still in both collections: every
\* record of an earlier batch, whose id no other record of the run has, is in
\* the Record collection with its fields and the timestamp of the run, and in
\* the SearchEntry collection with its name.
Committed(gameDoc) ==
  /\ \E j \in DocsWithId(games, gameDoc.id) :
       /\ \A f \in DOMAIN gameDoc : Has(games[j], f) /\ games[j][f] = gameDoc[f]
       /\ games[j].date_updated = currentTimestamp
  /\ \E j \in DocsWithId(search, gameDoc.id) :
       search[j].name = gameDoc.name /\ search[j].date_updated = currentTimestamp

EarlierBatches == 1..(next - Len(gamesBatch))

C12_NoRollback ==
  (Ended("Failed") /\ failedIn = "write" /\ phase = "retry") =>
    \A k \in EarlierBatches :
      (\A m \in 1..Len(gamesToProcess) :
         m # k => gamesToProcess[m].id # gamesToProcess[k].id)
      => Committed(gamesToProcess[k])

\* The second batch of a run failed twice after the first was written.
C12_Witness ==
  /\ Ended("Failed") /\ failedIn = "write" /\ phase = "retry"
  /\ EarlierBatches # {}
  /\ gamesToProcess[1].id # gamesToProcess[2].id
  /\ preGames = <<>>

\* C13: a run whose diff finds no New and no Changed record ends Done with no
\* write request and both collections as they were; and a resort is under way
\* only in a run whose diff found a New or a Changed record.
HasChanges ==
  Len(changesAnalysis.newGames) > 0 \/ Len(changesAnalysis.updatedGames) > 0

ResortPcs ==
  {"ResortFind", "ResortStage", "ResortDelete", "ResortFindTemp", "ResortReinsert",
   "ResortDrop"}

C13_ShortCircuit ==
  /\ mutations > 0 => HasChanges
  /\ (Ended("Done") /\ ~HasChanges) =>
       /\ mutations = 0 /\ games = preGames /\ search = preSearch
       /\ ~resortFailed /\ resortStart = <<>>
       /\ Has(result, "noChanges") /\ result.noChanges
  /\ pc \in {"Fill", "Ensure", "Games", "Search"} \cup ResortPcs => HasChanges

\* A run on a file with rows, all Unchanged, has ended.
C13_Witness ==
  /\ Ended("Done") /\ ~HasChanges
  /\ Len(allRecords) > 0 /\ changesAnalysis.unchangedCount = Len(allRecords)

ReindexPartial == resortFailed /\ Len(search) < Len(resortStart)

C15_ReindexSurfaced ==
  (pc = "Idle" /\ ReindexPartial) => outcome = "Failed"

\* C19: when the source file cannot be read, the run ends Failed, the error
\* rejects the promise, and no write is requested.
ReadFailed == pc = "Exited"

C19_ReadErrorRejects ==
  ReadFailed => (outcome = "Failed" /\ failedIn = "stream" /\ mutations = 0)

\* C16: a resort that completes without a store error on a non-empty
\* collection leaves the documents it found (as a multiset) in ascending order
\* of name, case ignored, and no staging collection; a resort of an empty
\* collection changes nothing in the store.
Sorted(docs) == \A j \in 1..(Len(docs) - 1) : DocKey(docs[j]) <= DocKey(docs[j + 1])

Count(docs, d) == Cardinality({j \in 1..Len(docs) : docs[j] = d})

SameDocs(a, b) ==
  /\ Len(a) = Len(b)
  /\ \A j \in 1..Len(a) : Count(a, a[j]) = Count(b, a[j])

C16_Step ==
  /\ (pc = "ResortDrop" /\ temp' = <<>>) =>
       /\ games' = games /\ search' = search
       /\ Coll # <<>> /\ Sorted(Coll) /\ SameDocs(Coll, resortStart)
  /\ (pc = "ResortFind" /\ Coll = <<>>) =>
       (store' = store /\ mutations' = mutations)

C16_ReindexResult == [][C16_Step]_vars

\* The resort of a Record collection of MaxDocs documents that were not in
\* order has completed.
C16_Witness ==
  /\ pc = "ResortFind" /\ coll = "search" /\ ~resortFailed
  /\ Len(games) = MaxDocs /\ resortStart # games /\ SameDocs(games, resortStart)
  /\ temp = <<>> /\ mutations > 0

\* C17: between the delete of the original and its first reinsert the
\* original collection is empty, all its documents being in the staging
\* collection only; a process that stops there leaves the original empty.
SwapWindow == pc = "ResortFindTemp" \/ (pc = "ResortReinsert" /\ i = 0)

C17_Step ==
  /\ SwapWindow => (Coll = <<>> /\ temp = allDocs /\ SameDocs(temp, resortStart))
  /\ (SwapWindow /\ pc' = "Stopped") =>
       (IF coll = "games" THEN games' ELSE search') = <<>>

C17_SwapWindow == [][C17_Step]_vars

\* The process stopped inside the window: the Record collection, which held
\* documents, is empty.
C17_Witness ==
  /\ pc = "Stopped" /\ coll = "games"
  /\ games = <<>> /\ Len(resortStart) = MaxDocs /\ SameDocs(temp, resortStart)
  /\ failures = 0

\* C18, as stated: a row is dropped only if it lacks both id and name.
LacksId(row) == parseInt(row, "id") = NaN \/ parseInt(row, "id") = <<0>>
LacksName(row) == ~Has(row, "name") \/ row.name = ""

C18_DropOnlyIfBoth ==
  (pc = "Returned" /\ ret = <<>>) => (LacksId(arg[1]) /\ LacksName(arg[1]))

\* C18, amended: a row is dropped exactly when it lacks id or name (an id
\* column that is missing, does not start with a number, or reads 0; a name
\* column that is missing or empty); a row with both is yielded as decoded.
C18_DropRule ==
  pc = "Returned" =>
    /\ ret = <<>> <=> (LacksId(arg[1]) \/ LacksName(arg[1]))
    /\ ret # <<>> => ret = <<DecodeRow(arg[1])>>

\* A row with a name and an id column that is no number was dropped.
C18_Witness ==
  /\ pc = "Returned" /\ ret = <<>>
  /\ ~LacksName(arg[1]) /\ Has(arg[1], "id") /\ arg[1].id = <<"x">>

\* C20: there is never a state in which two executions of the job are in
\* progress.
C20_AtMostOneRun == Cardinality(InProgress) <= 1

\* C21: the records handed to the batch writer have pairwise different ids,
\* so no two batches, and no two operations of one batch, write the same id.
WritingPcs == {"Ensure", "Games", "Search"}

C21_DisjointBatches ==
  pc \in WritingPcs \cup {"Fill"} =>
    \A k, m \in 1..Len(gamesToProcess) :
      k # m => gamesToProcess[k].id # gamesToProcess[m].id

\* C22: the sequence handed to the batch writer holds the New and the Changed
\* records, in ascending order of name, case ignored, and records whose names
\* compare equal are in the order of the source file.
WriteSet ==
  SelectSeq(allRecords, LAMBDA g : Classify(g, existingGamesMap) # "unchanged")

WithKey(docs, key) == SelectSeq(docs, LAMBDA d : DocKey(d) = key)

C22_WriteSetOrder ==
  pc \in WritingPcs \cup {"Fill"} =>
    /\ Sorted(gamesToProcess)
    /\ SameDocs(gamesToProcess, WriteSet)
    /\ \A key \in 0..3 : WithKey(gamesToProcess, key) = WithKey(WriteSet, key)

\* C23: the result of a run that ends Done has the sizes of New, Changed and
\* Unchanged, the number of rows read, and noChanges, which is true exactly
\* when New and Changed are empty.
C23_RunResult ==
  Ended("Done") =>
    /\ result.newGamesCount = Len(changesAnalysis.newGames)
    /\ result.updatedGamesCount = Len(changesAnalysis.updatedGames)
    /\ (Has(result, "noChanges") /\ result.noChanges) <=> ~HasChanges
    /\ Has(result, "unchangedCount")
    /\ result.unchangedCount = changesAnalysis.unchangedCount
    /\ Has(result, "totalScanned")
    /\ result.totalScanned = checked

\* C28: the batch in hand holds the next records of the sorted sequence, in
\* order, after whole batches of batchSize; it has batchSize operations unless
\* it is the last; its SearchEntry operations have the ids of its Record
\* operations in the same order and are written only when the Record write of
\* the same attempt has returned; a resort starts when every record is placed.
C28_BatchConstruction ==
  /\ pc \in WritingPcs =>
       LET n == Len(gamesBatch)
           first == next - n
       IN /\ n > 0 /\ first >= 0 /\ first % batchSize = 0
          /\ n = batchSize \/ (n < batchSize /\ next = Len(gamesToProcess))
          /\ \A k \in 1..n :
               /\ gamesBatch[k].id = gamesToProcess[first + k].id
               /\ \A f \in DOMAIN gamesToProcess[first + k] :
                    gamesBatch[k].set[f] = gamesToProcess[first + k][f]
          /\ Len(searchBatch) = n
          /\ \A k \in 1..n :
               /\ searchBatch[k].id = gamesBatch[k].id
               /\ searchBatch[k].set.name = gamesToProcess[first + k].name
          /\ pc = "Search" => (batchLog # <<>> /\ Last(batchLog) = "games")
  /\ pc = "Fill" => next % batchSize = 0
  /\ pc \in ResortPcs => next = Len(gamesToProcess)

\* The second batch of a run is in hand, its Record write done.
C28_Witness ==
  /\ pc = "Search" /\ next - Len(gamesBatch) = batchSize
  /\ gamesBatch[1].id # gamesToProcess[1].id

\* C29: while batches are written totalProcessed is the number of records of
\* the batches whose two writes have returned; it grows only when the
\* SearchEntry write of a batch returns after its Record write, by the size of
\* that batch; and at Done it is the size of New plus the size of Changed.
C29_Step ==
  /\ pc \in WritingPcs => totalProcessed = next - Len(gamesBatch)
  /\ pc = "Fill" => totalProcessed = next
  /\ Ended("Done") =>
       totalProcessed = Len(changesAnalysis.newGames) + Len(changesAnalysis.updatedGames)
  /\ totalProcessed' # totalProcessed =>
       \/ pc = "Idle" /\ totalProcessed' = 0
       \/ /\ pc = "Search" /\ Last(batchLog) = "games"
          /\ search' = bulkWrite(search, searchBatch)
          /\ totalProcessed' = totalProcessed + Len(gamesBatch)

C29_ProcessedCounter == [][C29_Step]_vars

\* The second batch of a run was written on its retry.
C29_Witness ==
  /\ pc = "Fill" /\ phase = "retry" /\ totalProcessed = 2 * batchSize

\* C30: after a run that ends Done, the Record and the SearchEntry of every
\* record classified Unchanged are as they were before the run.
Unchanged(gameDoc) == Classify(gameDoc, existingGamesMap) = "unchanged"

C30_UnchangedUntouched ==
  (Ended("Done") /\ failures = 0) =>
    \A k \in 1..Len(allRecords) :
      Unchanged(allRecords[k]) =>
        /\ SelectId(games, allRecords[k].id) = SelectId(preGames, allRecords[k].id)
        /\ SelectId(search, allRecords[k].id) = SelectId(preSearch, allRecords[k].id)

FailedScheduled ==
  {e \in 1..Len(executions) : executions[e].by = "cron" /\ executions[e].at = "thrown"}

C26_RetryOnNextSchedule ==
  (FailedScheduled # {} /\ signals = 0) =>
    /\ proc = "running" /\ job = "started"
    /\ \A e \in FailedScheduled : executions[e].calls = <<"onError">>
    /\ Len(executions) < MaxExecutions => ENABLED CronTick

\* A tick has started an execution after a scheduled execution failed.
C26_Witness ==
  \E e, f \in 1..Len(executions) :
    /\ e < f /\ e \in FailedScheduled
    /\ executions[f].by = "cron" /\ executions[f].at = "download"

\* C27: the first signal stops every job, then the database is disconnected,
\* then the process exits; the database is not disconnected before the jobs
\* are stopped, and a signal during the shutdown starts no second one.
C27_GracefulShutdown ==
  /\ signals > 0 => (shutdownLog # <<>> /\ shutdownLog[1] = "stop" /\ job = "stopped")
  /\ proc # "running" =>
       shutdownLog \in {<<"stop", "disconnect", "exit">>,
                        <<"stop", "disconnect failed", "exit">>}
  /\ db = "disconnected" => job = "stopped"
  /\ Cardinality({k \in 1..Len(shutdownLog) : shutdownLog[k] = "stop"}) <= 1

\* C25: when downloadAndExtract has finished, returning a path or throwing,
\* the temporary archive it downloaded is no longer in the data directory.
C25_TempFileRemoved ==
  (extractor.pc = "idle" /\ extractor.outcome # "none") =>
    \A f \in dataDir.temps : f.name # extractor.temp

\* The numeric source columns, the field each is decoded into and the parse
\* applied to it.
NumericColumns ==
  { [col |-> "yearpublished", field |-> "year_published", float |-> FALSE],
    [col |-> "rank", field |-> "rank", float |-> FALSE],
    [col |-> "bayesaverage", field |-> "bayes_average", float |-> TRUE],
    [col |-> "average", field |-> "average", float |-> TRUE],
    [col |-> "usersrated", field |-> "users_rated", float |-> FALSE],
    [col |-> "abstracts_rank", field |-> "abstracts_rank", float |-> FALSE] }

Parsed(row, c) == IF c.float THEN parseFloat(row, c.col) ELSE parseInt(row, c.col)

Pending == pc # "Idle"

C32_RunSettles == Pending => ENABLED Next

\* C33: from the first staging insert of a resort to its end, every
\* document the collection held when the resort started is in the original
\* collection or in the staging collection, also after a step that failed or
\* a stop of the process; and the original loses documents only when all of
\* them are staged.
Resorting ==
  pc \in {"ResortStage", "ResortDelete", "ResortFindTemp", "ResortReinsert",
          "ResortDrop"}

Kept(original, staging) ==
  \A j \in 1..Len(resortStart) :
    Count(original, resortStart[j]) + Count(staging, resortStart[j])
      >= Count(resortStart, resortStart[j])

C33_Step ==
  Resorting =>
    /\ Kept(Coll, temp)
    /\ Kept(IF coll = "games" THEN games' ELSE search', temp')
    /\ Len(IF coll = "games" THEN games' ELSE search') < Len(Coll) =>
         (pc = "ResortDelete" /\ SameDocs(temp, resortStart))

C33_NoDocumentLost == [][C33_Step]_vars

\* The resort of the Record collection ended on a failure after its delete:
\* the collection lacks documents, all of which are in the staging collection.
C33_Witness ==
  /\ pc = "ResortFind" /\ coll = "search" /\ resortFailed
  /\ Len(resortStart) = MaxDocs /\ Len(games) < MaxDocs
  /\ SameDocs(temp, resortStart)

\* C34: when two overlapping runs have both finished, the Record collection
\* has at most one document of each id, and has every id it held before the
\* runs and every id either run wrote.
BothDone == runs # <<>> /\ \A r \in OverlapRuns : runs[r].pc = "Done"

WrittenIds == UNION {IdsOf(runs[r].gamesToProcess) : r \in OverlapRuns}

C34_OverlappingRuns ==
  BothDone =>
    /\ \A id \in IdsOf(games) : Cardinality(Matching(games, id)) <= 1
    /\ (IdsOf(preGames) \cup WrittenIds) \subseteq IdsOf(games)

\* C35: when downloadAndExtract has returned a path, the file at that path
\* has the content of the CSV entry of the archive this call downloaded.
C35_FreshExtraction ==
  (extractor.pc = "idle" /\ extractor.outcome = "returned") =>
    /\ extractor.csvPath \in DOMAIN dataDir.csvs
    /\ dataDir.csvs[extractor.csvPath] = extractor.archive

\* C37: extractRar invokes the system unrar only as the second extractor,
\* after node-unrar-js has thrown; the path it returns comes from the first
\* extractor that did not throw, after which no other is invoked; and it
\* throws only when both extractors have thrown.
RarDone == extractor.ext = ".rar" /\ extractor.pc \in {"cleanup", "idle"}

Steps == {bggJob.requests[k] : k \in 1..Len(bggJob.requests)}

Before(a, b) ==
  \E j, k \in 1..Len(bggJob.requests) :
    j < k /\ bggJob.requests[j] \in a /\ bggJob.requests[k] \in b

Timestamps == {"date_created", "date_updated"}

C38_Step ==
  /\ Len(games') = Len(games)
  /\ \A j \in 1..Len(games) : \A f \in Timestamps :
       Has(games[j], f) => (Has(games'[j], f) /\ games'[j][f] = games[j][f])
  /\ clock >= 2 => games' = games

C38_BackfillPreserves == [][C38_Step]_vars

====
